---- MODULE Spec2Model ----
(***************************************************************************)
(* A model of the Feedback HTTP facade: the express routes of server.js,   *)
(* the Telegram webhook of the bot versions of the server, and the calls   *)
(* of sheetsClient.js against the remote spreadsheet.                      *)
(*                                                                         *)
(* Text.  A JavaScript string is a sequence of tokens.  A token is either  *)
(* a character (or an unbroken word, where the code never looks inside     *)
(* it), Ch(x), or the JSON serialisation of one object, Obj(o).  The       *)
(* structure the code inspects -- blanks, '[', ']', ',', '/', '#', digits  *)
(* -- is kept token by token.                                              *)
(***************************************************************************)
EXTENDS Integers, Sequences, FiniteSets, TLC

VARIABLES
    API_KEY,    \* process.env.API_KEY ("" when not configured)
    sheet,      \* the grid of the 'Feedback' sheet: a sequence of rows of 15 cells
    clock,      \* wall-clock time, read by new Date()
    pc,         \* per client: where its request handler stands
    req,        \* per client: the request being handled
    loc,        \* per client: the handler's local variables
    res,        \* per client: the responses sent for its request, in order
    guides,     \* the grid of the guides sheet: rows of 4 cells
    calls,      \* every call made to the remote spreadsheet, in order
    before,     \* per client: the sheet as it was when its request arrived (history)
    sent,       \* every message handed to the Telegram sendMessage API, in order
    seen        \* per client: the records its last dashboard showed, once it acts on them

vars == <<API_KEY, sheet, guides, clock, pc, req, loc, res, calls, before, sent, seen>>

----------------------------------------------------------------------------
(* Bounds of the model.                                                    *)

\* data rows of the initial sheet, below the two header rows
MaxRows == 3
\* longest rowNumbers array of a bulk request
MaxLen == 2
\* longest content of a comment cell, in tokens, that is tried exhaustively
MaxCell == 3
\* longest comment text, in tokens
MaxText == 2

\* sheet columns A..O
NumCols == 15
\* columns A..N, the range read by getRow and written by updateRow
RangeCols == 14
\* header rows above the first data row
HeaderRows == 2

----------------------------------------------------------------------------
(* Strings.                                                                *)

Ch(x) == <<"c", x>>
Obj(o) == <<"o", o>>
Word(w) == <<Ch(w)>>
Empty == <<>>
\* the JavaScript value undefined, where a string is expected
Undefined == << <<"undefined">> >>

\* JavaScript truthiness of a string-or-undefined value
Truthy(t) == t # Empty /\ t # Undefined
\* x || ''
OrEmpty(t) == IF Truthy(t) THEN t ELSE Empty

IsBlank(tok) == tok = Ch(" ")

RECURSIVE TrimStart(_)
TrimStart(t) ==
    IF t # <<>> /\ IsBlank(Head(t)) THEN TrimStart(Tail(t)) ELSE t

RECURSIVE TrimEnd(_)
TrimEnd(t) ==
    IF t # <<>> /\ IsBlank(t[Len(t)]) THEN TrimEnd(SubSeq(t, 1, Len(t) - 1)) ELSE t

\* String.prototype.trim
Trim(t) == TrimEnd(TrimStart(t))

\* String.prototype.startsWith / endsWith
StartsWith(t, p) == Len(t) >= Len(p) /\ SubSeq(t, 1, Len(p)) = p
EndsWith(t, p) == Len(t) >= Len(p) /\ SubSeq(t, Len(t) - Len(p) + 1, Len(t)) = p

----------------------------------------------------------------------------
(* JSON, as far as the comment cell needs it.  A value is an object (one   *)
(* token, Obj(o)), the number 1 (Ch("1")), or an array <<"a", elements>>.  *)

Arr(elements) == <<"a", elements>>
IsAtom(tok) == tok[1] = "o" \/ tok = Ch("1")

\* JSON.stringify of a value
RECURSIVE StringifyValue(_), JoinValues(_)
StringifyValue(v) ==
    IF v[1] = "a" THEN <<Ch("[")>> \o JoinValues(v[2]) \o <<Ch("]")>> ELSE <<v>>

JoinValues(list) ==
    IF list = <<>> THEN <<>>
    ELSE IF Len(list) = 1 THEN StringifyValue(list[1])
    ELSE StringifyValue(list[1]) \o <<Ch(",")>> \o JoinValues(Tail(list))

\* JSON.stringify of an array, given as the sequence of its elements
JsonStringify(list) == StringifyValue(Arr(list))

\* the tokens of a text, insignificant whitespace dropped
NoWs(t) == SelectSeq(t, LAMBDA tok : ~IsBlank(tok))

SyntaxError == [ok |-> FALSE, value |-> <<>>, next |-> 0]

\* the value that starts at s[i], and the elements of an array up to its ']'
RECURSIVE ParseValue(_, _), ParseElements(_, _)
ParseValue(s, i) ==
    IF i > Len(s) THEN SyntaxError
    ELSE IF IsAtom(s[i]) THEN [ok |-> TRUE, value |-> s[i], next |-> i + 1]
    ELSE IF s[i] # Ch("[") THEN SyntaxError
    ELSE IF i + 1 <= Len(s) /\ s[i + 1] = Ch("]")
        THEN [ok |-> TRUE, value |-> Arr(<<>>), next |-> i + 2]
    ELSE LET e == ParseElements(s, i + 1)
         IN  IF e.ok THEN [ok |-> TRUE, value |-> Arr(e.value), next |-> e.next]
             ELSE SyntaxError

ParseElements(s, i) ==
    LET v == ParseValue(s, i)
    IN  IF ~v.ok \/ v.next > Len(s) THEN SyntaxError
        ELSE IF s[v.next] = Ch("]")
            THEN [ok |-> TRUE, value |-> <<v.value>>, next |-> v.next + 1]
        ELSE IF s[v.next] # Ch(",") THEN SyntaxError
        ELSE LET rest == ParseElements(s, v.next + 1)
             IN  IF rest.ok
                   THEN [ok |-> TRUE, value |-> <<v.value>> \o rest.value, next |-> rest.next]
                   ELSE SyntaxError

\* JSON.parse of a text: ok = FALSE is a SyntaxError; array tells an array
\* (Array.isArray) from any other value; value holds an array's elements
JsonParse(t) ==
    LET s == NoWs(t)
        v == ParseValue(s, 1)
    IN  IF v.ok /\ v.next = Len(s) + 1
            THEN [ok |-> TRUE, array |-> v.value[1] = "a",
                  value |-> IF v.value[1] = "a" THEN v.value[2] ELSE <<>>]
            ELSE [ok |-> FALSE, array |-> FALSE, value |-> <<>>]

----------------------------------------------------------------------------
(* The remote spreadsheet, as sheetsClient.js uses it.  A grid is a        *)
(* sequence of rows, a row a sequence of NumCols cells, a cell a text.     *)

BlankRow == [j \in 1..NumCols |-> Empty]

\* a row number the grid has
InGrid(grid, n) == n \in 1..Len(grid)

\* values.get leaves out the trailing empty cells of a row ...
RECURSIVE TrimRow(_)
TrimRow(row) ==
    IF row # <<>> /\ row[Len(row)] = Empty
        THEN TrimRow(SubSeq(row, 1, Len(row) - 1)) ELSE row

\* ... and the trailing empty rows of a range
RECURSIVE TrimRows(_)
TrimRows(rows) ==
    IF rows # <<>> /\ rows[Len(rows)] = <<>>
        THEN TrimRows(SubSeq(rows, 1, Len(rows) - 1)) ELSE rows

\* response.data.values || [] for the whole sheet
ValuesGet(grid) == TrimRows([i \in 1..Len(grid) |-> TrimRow(grid[i])])

\* row[i] || '' with the 0-based index of the code
At(row, i) == IF i + 1 <= Len(row) THEN OrEmpty(row[i + 1]) ELSE Empty

\* the record getAllData makes of a raw row, index counted from the first data row
MapRow(row, index) ==
    [rowNumber |-> index + 3,
     deadline  |-> At(row, 0),
     host      |-> At(row, 1),
     shop      |-> At(row, 2),
     link      |-> At(row, 3),
     stage     |-> At(row, 4),
     tags      |-> At(row, 5),
     devNote   |-> At(row, 6),
     imageNote |-> At(row, 7),
     note      |-> At(row, 8),
     time      |-> At(row, 9),
     message   |-> At(row, 10),
     messageId |-> At(row, 11),
     imageId   |-> At(row, 12),
     id        |-> At(row, 13)]

\* the filter of getAllData: row.shop || row.host
KeepRow(r) == Truthy(r.shop) \/ Truthy(r.host)

\* a getAllData that numbers the records after the filter
GetAllData_NumberAfterFilter(grid) ==
    LET data == ValuesGet(grid)
    IN  IF Len(data) < 3 THEN [headers |-> <<>>, rows |-> <<>>]
        ELSE LET rowsRaw == SubSeq(data, HeaderRows + 1, Len(data))
                 mapped  == [i \in 1..Len(rowsRaw) |-> MapRow(rowsRaw[i], i - 1)]
                 kept    == SelectSeq(mapped, KeepRow)
             IN  [headers |-> data[1],
                  rows |-> [i \in 1..Len(kept) |-> [kept[i] EXCEPT !.rowNumber = i + 2]]]

\* SheetsClient.getAllData, given that the read succeeds
GetAllData(grid) ==
    LET data == ValuesGet(grid)
    IN  IF Len(data) < 3 THEN [headers |-> <<>>, rows |-> <<>>]
        ELSE LET rowsRaw == SubSeq(data, HeaderRows + 1, Len(data))
                 mapped  == [i \in 1..Len(rowsRaw) |-> MapRow(rowsRaw[i], i - 1)]
             IN  [headers |-> data[1], rows |-> SelectSeq(mapped, KeepRow)]

\* SheetsClient.getRow, given that the read succeeds: the cells A..N of the
\* row, or [] when the range holds no value
GetRow(grid, rowNumber) == TrimRow(SubSeq(grid[rowNumber], 1, RangeCols))

\* a part_002-style layout, where Stage is column E
ColOf_StageInE(colLetter) ==
    CASE colLetter = "F" -> 5
      [] colLetter = "H" -> 8
      [] colLetter = "O" -> 15

\* the column a letter names
ColOf(colLetter) ==
    CASE colLetter = "F" -> 6
      [] colLetter = "H" -> 8
      [] colLetter = "O" -> 15

\* SheetsClient.updateCell, given that the write succeeds.  values: [[value]]
\* with an undefined value goes out as [[null]], which leaves the cell as
\* it is.
UpdateCell(grid, rowNumber, colLetter, value) ==
    IF value = Undefined THEN grid
    ELSE [grid EXCEPT ![rowNumber][ColOf(colLetter)] = value]

\* SheetsClient.updateRow addresses the range A..N of the row: the grid
\* after the values that lie within the range are written
UpdateRow(grid, rowNumber, rowArray) ==
    [grid EXCEPT ![rowNumber] =
        [j \in 1..NumCols |->
            IF j <= RangeCols /\ j <= Len(rowArray) THEN rowArray[j] ELSE @[j]]]

\* SheetsClient.deleteRow, given that both of its calls succeed: the
\* deleteDimension of [rowNumber - 1, rowNumber)
DeleteRow(grid, rowNumber) ==
    SubSeq(grid, 1, rowNumber - 1) \o SubSeq(grid, rowNumber + 1, Len(grid))

----------------------------------------------------------------------------
(* The pure parts of the action functions of server.js.                    *)

\* the "HH:mm:ss dd/MM/yyyy" text of the time t
Timestamp(t) == "ts" \o ToString(t)
\* the "HH:mm dd/MM/yyyy" text of the time t
ShortTimestamp(t) == "hm" \o ToString(t)

\* a comment object
Comment(text, time, author) == Obj([text |-> text, time |-> time, author |-> author])

\* addComment and getComments: parse existing comments or preserve legacy text
ParseComments(currentContent) ==
    IF ~Truthy(currentContent) THEN <<>>
    ELSE IF StartsWith(Trim(currentContent), Word("["))
            /\ EndsWith(Trim(currentContent), Word("]"))
        THEN LET parsed == JsonParse(currentContent)
             IN  IF parsed.ok /\ parsed.array THEN parsed.value ELSE <<>>
    ELSE <<Comment(currentContent, "Note cu", "System")>>

\* deleteComment: the same parse without the legacy branch
ParseCommentsStrict(currentContent) ==
    IF ~Truthy(currentContent) THEN <<>>
    ELSE IF StartsWith(Trim(currentContent), Word("["))
            /\ EndsWith(Trim(currentContent), Word("]"))
        THEN LET parsed == JsonParse(currentContent)
             IN  IF parsed.ok /\ parsed.array THEN parsed.value ELSE <<>>
    ELSE <<>>

\* an addComment that stores the text as it came
PushComment_NoTrim(comments, commentText, time) ==
    Append(comments, Comment(commentText, time, "User"))

\* addComment: the list written back
PushComment(comments, commentText, time) ==
    Append(comments, Comment(Trim(commentText), time, "User"))

\* addCommentToFeedback (the bot's variant): no trim, author 'Telegram'
PushTelegramComment(comments, commentText, time) ==
    Append(comments, Comment(commentText, time, "Telegram"))

\* a splice that counts the comments from 1
Splice_OneBased(comments, commentIndex) ==
    SubSeq(comments, 1, commentIndex - 1) \o SubSeq(comments, commentIndex + 1, Len(comments))

\* comments.splice(commentIndex, 1), commentIndex 0-based
Splice(comments, commentIndex) ==
    SubSeq(comments, 1, commentIndex) \o SubSeq(comments, commentIndex + 2, Len(comments))

\* the fields of updates, and the 0-based column each is written to
UpdateFields ==
    {"deadline", "host", "shop", "link", "stage", "tags", "devNote", "note", "message"}

FieldIndex(f) ==
    CASE f = "deadline" -> 1 [] f = "host" -> 2 [] f = "shop" -> 3
      [] f = "link" -> 4 [] f = "stage" -> 5 [] f = "tags" -> 6
      [] f = "devNote" -> 7 [] f = "note" -> 9 [] f = "message" -> 11

\* while (newRow.length < 15) newRow.push('')
PadRow(row) == row \o [j \in 1..(NumCols - Len(row)) |-> Empty]

\* an updateFeedback that builds the row from the updates alone
MergeRow_Overwrite(currentRowRaw, updates, timestamp) ==
    [j \in 1..NumCols |->
        IF j = NumCols THEN Word(timestamp)
        ELSE IF \E f \in UpdateFields : FieldIndex(f) = j - 1
            THEN OrEmpty(updates[CHOOSE f \in UpdateFields : FieldIndex(f) = j - 1])
        ELSE IF j <= Len(currentRowRaw) THEN currentRowRaw[j] ELSE Empty]

\* updateFeedback: the row handed to updateRow
MergeRow(currentRowRaw, updates, timestamp) ==
    LET newRow == PadRow(currentRowRaw)
    IN  [j \in 1..Len(newRow) |->
            IF j = NumCols THEN Word(timestamp)
            ELSE IF \E f \in UpdateFields : FieldIndex(f) = j - 1 /\ updates[f] # Undefined
                THEN updates[CHOOSE f \in UpdateFields : FieldIndex(f) = j - 1]
            ELSE newRow[j]]

\* [...rowNumbers].sort((a, b) => b - a)
RECURSIVE InsertDesc(_, _)
InsertDesc(x, sorted) ==
    IF sorted = <<>> THEN <<x>>
    ELSE IF x > Head(sorted) THEN <<x>> \o sorted
    ELSE <<Head(sorted)>> \o InsertDesc(x, Tail(sorted))

RECURSIVE SortDesc(_)
SortDesc(rowNumbers) ==
    IF rowNumbers = <<>> THEN <<>>
    ELSE InsertDesc(Head(rowNumbers), SortDesc(Tail(rowNumbers)))

\* the order in which bulkDelete deletes
DeleteOrder(rowNumbers) == SortDesc(rowNumbers)

\* the number of rows a predicate holds of
Count(rows, P(_)) == Len(SelectSeq(rows, P))

\* a list that keeps every occurrence
Unique_KeepAll(q) == q

\* [...new Set(q)]: the values of q, each once, in the order they first occur
RECURSIVE Unique(_)
Unique(q) ==
    IF q = <<>> THEN <<>>
    ELSE LET front == Unique(SubSeq(q, 1, Len(q) - 1))
             last  == q[Len(q)]
         IN  IF \E i \in 1..Len(front) : front[i] = last THEN front
             ELSE Append(front, last)

\* the words of the sheets of the model, in the order of their UTF-16 code
\* units, which is the order of Array.prototype.sort()
Lexicon ==
    <<Word("An"), Word("Binh"), Word("Done"), Word("Feedback"), Word("Other")>>
    \o [k \in 1..9 |-> Word("deadline" \o ToString(k))]
    \o [k \in 1..9 |-> Word("host" \o ToString(k))]
    \o [k \in 1..9 |-> Word("link" \o ToString(k))]

RECURSIVE SortBy(_, _)
SortBy(order, q) ==
    IF order = <<>> THEN <<>>
    ELSE SelectSeq(q, LAMBDA t : t = Head(order)) \o SortBy(Tail(order), q)

\* q.sort()
Sort(q) == SortBy(Lexicon, q)

\* getDashboardData, given the rows of getAllData
Dashboard(rows) ==
    LET hostOf   == [i \in 1..Len(rows) |-> rows[i].host]
        stageOf  == [i \in 1..Len(rows) |-> rows[i].stage]
        hostKeys  == {hostOf[i] : i \in 1..Len(rows)} \ {Empty}
        stageKeys == {stageOf[i] : i \in 1..Len(rows)} \ {Empty}
    IN  [pending  |-> Count(rows, LAMBDA r : r.stage = Word("Feedback")),
         done     |-> Count(rows, LAMBDA r : r.stage = Word("Done")),
         byHost   |-> [h \in hostKeys |-> Count(rows, LAMBDA r : r.host = h)],
         byStage  |-> [g \in stageKeys |-> Count(rows, LAMBDA r : r.stage = g)],
         hosts    |-> Sort(Unique(SelectSeq(hostOf, Truthy))),
         stages   |-> Sort(Unique(SelectSeq(stageOf, Truthy))),
         feedback |-> rows]

\* SheetsClient.getGuidesData, given that the read succeeds
MapGuide(row, index) ==
    [rowNumber |-> index + 2,
     type      |-> At(row, 0),
     template  |-> At(row, 1),
     link      |-> At(row, 2),
     app       |-> At(row, 3)]

KeepGuide(r) == Truthy(r.template) \/ Truthy(r.link)

GetGuidesData(grid) ==
    LET data == ValuesGet(grid)
    IN  IF Len(data) < 2 THEN [rows |-> <<>>]
        ELSE LET rowsRaw == SubSeq(data, 2, Len(data))
                 mapped  == [i \in 1..Len(rowsRaw) |-> MapGuide(rowsRaw[i], i - 1)]
             IN  [rows |-> SelectSeq(mapped, KeepGuide)]

\* getGuidesData of server.js: the rows, and the rows grouped by type
GuidesResult(rows) ==
    [guides |-> rows,
     groupedGuides |->
        [t \in {rows[i].type : i \in 1..Len(rows)} |->
            SelectSeq(rows, LAMBDA r : r.type = t)]]

\* values.append: the row goes below the last row that holds a value
AppendRow(grid, rowArray) ==
    LET n == Len(ValuesGet(grid))
        row == [j \in 1..NumCols |-> IF j <= Len(rowArray) THEN rowArray[j] ELSE Empty]
    IN  IF n < Len(grid) THEN [grid EXCEPT ![n + 1] = row] ELSE Append(grid, row)

\* createFeedback: the row appended
FeedbackRow(feedback, id, timestamp) ==
    <<Word(id),
      OrEmpty(feedback.deadline),
      OrEmpty(feedback.host),
      OrEmpty(feedback.shop),
      OrEmpty(feedback.link),
      IF Truthy(feedback.stage) THEN feedback.stage ELSE Word("Feedback"),
      OrEmpty(feedback.tags),
      OrEmpty(feedback.devNote),
      Empty,
      OrEmpty(feedback.note),
      Word(timestamp),
      OrEmpty(feedback.note),
      Empty,
      Empty,
      Word(timestamp)>>

----------------------------------------------------------------------------
(* Requests, responses and the handlers' bookkeeping.                      *)

Clients == {1, 2}

NoUpdates == [f \in UpdateFields |-> Undefined]

FeedbackFields ==
    {"deadline", "host", "shop", "link", "stage", "tags", "devNote", "note"}

\* a Telegram update without a message.  With a message: whether it has
\* chat and from, the sender's id and first name, text and caption, whether
\* it replies to a message, whether that message's text matches /#(\d+)/ and
\* the number it carries, and what is attached ("none", "photo", an image
\* "document", or another "file")
NoUpdate ==
    [hasMessage |-> FALSE,
     hasChat    |-> TRUE,
     hasFrom    |-> TRUE,
     userId     |-> "1",
     text       |-> Empty,
     caption    |-> Empty,
     hasReply   |-> FALSE,
     hasMatch   |-> FALSE,
     replyRow   |-> 0,
     attachment |-> "none"]

\* a request with nothing in its body; the fields of a body that are
\* missing are undefined (0 for a number, <<>> for an array)
NoRequest ==
    [method       |-> "",
     path         |-> "",
     key          |-> "none",
     action       |-> "undefined",
     rowNumber    |-> 0,
     rowNumbers   |-> <<>>,
     newStage     |-> Undefined,
     commentText  |-> Undefined,
     hasUpdates   |-> FALSE,
     updates      |-> NoUpdates,
     hasIndex     |-> FALSE,
     commentIndex |-> 0,
     hasFeedback  |-> FALSE,
     feedback     |-> [f \in FeedbackFields |-> Undefined],
     hasGuide     |-> FALSE,
     hasFileId    |-> FALSE,
     update       |-> NoUpdate]

Post(action) ==
    [NoRequest EXCEPT !.method = "POST", !.path = "/api/exec", !.action = action]
Get(action) ==
    [NoRequest EXCEPT !.method = "GET", !.path = "/api/exec", !.action = action]

NoLocals ==
    [timestamp   |-> "",
     comments    |-> <<>>,
     newRow      |-> <<>>,
     queue       |-> <<>>,
     threw       |-> FALSE,
     error       |-> "",
     rowNumber   |-> 0,
     commentText |-> Empty,
     targetHost  |-> Empty,
     outbox      |-> <<>>,
     inner       |-> FALSE,
     branch      |-> "",
     then        |-> ""]

\* res.json(...) and res.status(403).json(...)
Json(success, message, data) ==
    [status |-> 200, success |-> success, message |-> message, data |-> data]
Forbidden ==
    [status |-> 403, success |-> FALSE, message |-> "Forbidden: Invalid API Key",
     data |-> <<>>]

\* a call to the remote spreadsheet
Call(c, op, rowNumber, col, value, ok) ==
    [client |-> c, op |-> op, row |-> rowNumber, col |-> col, value |-> value, ok |-> ok]

IsWrite(call) == call.op \in {"updateCell", "updateRow", "appendRow", "deleteRow"}

\* the message of the error a failing call of the remote throws
RemoteError == "Remote error"

(* What one step of a handler does: where it goes on, its locals, the      *)
(* responses it sends, the sheet it leaves, the calls it made, the         *)
(* Telegram messages that went out.                                        *)
Base(c) ==
    [pc |-> pc[c], loc |-> loc[c], out |-> <<>>, sheet |-> sheet,
     calls |-> <<>>, clock |-> clock, sent |-> <<>>]

\* the handler goes on at label with locals l, awaiting its next call
Goto(c, label, l) == [Base(c) EXCEPT !.pc = label, !.loc = l]

\* the action returned result: res.json(result)
Return(c, result) == [Base(c) EXCEPT !.pc = "done", !.out = <<result>>]

\* a route without the catch block: the exception leaves the handler
Thrown_Uncaught(c, message) ==
    [Base(c) EXCEPT !.pc = "done",
                    !.loc = [loc[c] EXCEPT !.threw = TRUE, !.error = message]]

\* the action threw: the catch block of the /api/exec routes
Thrown(c, message) ==
    [Base(c) EXCEPT !.pc = "done",
                    !.loc = [loc[c] EXCEPT !.threw = TRUE, !.error = message],
                    !.out = <<Json(FALSE, message, <<>>)>>]

With(o, call) == [o EXCEPT !.calls = <<call>>]
WithSheet(o, grid) == [o EXCEPT !.sheet = grid]
Tick(o) == [o EXCEPT !.clock = clock + 1]

Step(c, o) ==
    /\ pc' = [pc EXCEPT ![c] = o.pc]
    /\ loc' = [loc EXCEPT ![c] = o.loc]
    /\ res' = [res EXCEPT ![c] = @ \o o.out]
    /\ sheet' = o.sheet
    /\ calls' = calls \o o.calls
    /\ clock' = o.clock
    /\ sent' = sent \o o.sent
    /\ UNCHANGED <<API_KEY, guides, req, before, seen>>

----------------------------------------------------------------------------
(* server.js: the middleware and the two /api/exec routes.  Each action    *)
(* function runs up to its first await here; the actions further down      *)
(* take it from one await to the next.                                     *)

\* the route express hands a request to once the middleware called next()
Route(r) ==
    IF r.path = "/api/exec" /\ r.method = "POST" THEN "postExec"
    ELSE IF r.path = "/api/exec" /\ r.method = "GET" THEN "getExec"
    ELSE "notFound"

\* a middleware that checks the key only when the header is present
ApiKeyMiddleware_HeaderOptional(c) ==
    /\ pc[c] = "middleware"
    /\ Step(c, IF API_KEY = "" THEN Goto(c, Route(req[c]), loc[c])
               ELSE IF req[c].key # "none" /\ req[c].key # API_KEY
                   THEN [Base(c) EXCEPT !.pc = "done", !.out = <<Forbidden>>]
               ELSE Goto(c, Route(req[c]), loc[c]))

\* app.use('/api', ...): the API key middleware
ApiKeyMiddleware(c) ==
    /\ pc[c] = "middleware"
    /\ Step(c, IF API_KEY = "" THEN Goto(c, Route(req[c]), loc[c])
               ELSE IF req[c].key # API_KEY
                   THEN [Base(c) EXCEPT !.pc = "done", !.out = <<Forbidden>>]
               ELSE Goto(c, Route(req[c]), loc[c]))

getDashboardData(c) == Goto(c, "getDashboardData", loc[c])

getGuidesData(c) == Goto(c, "getGuidesData", loc[c])

\* sheetsClient has no getHistoryData: the call throws a TypeError
getHistory(c) == Thrown(c, "sheetsClient.getHistoryData is not a function")

createFeedback(c) ==
    IF ~req[c].hasFeedback THEN Thrown(c, "No feedback data")
    ELSE Tick(Goto(c, "createFeedback",
            [loc[c] EXCEPT !.timestamp = Timestamp(clock + 1),
                           !.newRow = FeedbackRow(req[c].feedback,
                                                  "id" \o ToString(clock + 1),
                                                  Timestamp(clock + 1))]))

updateFeedback(c) ==
    IF req[c].rowNumber = 0 THEN Thrown(c, "Missing rowNumber")
    ELSE Goto(c, "updateFeedback_getRow", loc[c])

updateStage(c) ==
    Tick(Goto(c, "updateStage_F", [loc[c] EXCEPT !.timestamp = Timestamp(clock + 1)]))

deleteFeedback(c) ==
    IF req[c].rowNumber = 0 THEN Thrown(c, "Missing rowNumber")
    ELSE Goto(c, "deleteRow_get", [loc[c] EXCEPT !.queue = <<req[c].rowNumber>>])

bulkUpdateStage(c) ==
    IF req[c].rowNumbers = <<>> THEN Thrown(c, "Missing or invalid rowNumbers")
    ELSE IF ~Truthy(req[c].newStage) THEN Thrown(c, "Missing newStage")
    ELSE Tick(Goto(c, "bulkUpdateStage_F",
            [loc[c] EXCEPT !.timestamp = Timestamp(clock + 1),
                           !.queue = req[c].rowNumbers]))

bulkDelete(c) ==
    IF req[c].rowNumbers = <<>> THEN Thrown(c, "Missing or invalid rowNumbers")
    ELSE Goto(c, "deleteRow_get", [loc[c] EXCEPT !.queue = DeleteOrder(req[c].rowNumbers)])

addComment(c) ==
    IF req[c].rowNumber = 0 THEN Thrown(c, "Missing rowNumber")
    ELSE IF ~Truthy(req[c].commentText) \/ ~Truthy(Trim(req[c].commentText))
        THEN Thrown(c, "Missing comment text")
    ELSE Goto(c, "addComment_getRow", loc[c])

getComments(c) ==
    IF req[c].rowNumber = 0 THEN Thrown(c, "Missing rowNumber")
    ELSE Goto(c, "getComments_getRow", loc[c])

deleteComment(c) ==
    IF req[c].rowNumber = 0 THEN Thrown(c, "Missing rowNumber")
    ELSE IF ~req[c].hasIndex THEN Thrown(c, "Missing commentIndex")
    ELSE Goto(c, "deleteComment_getRow", loc[c])

\* sheetsClient has no appendGuideRow, updateGuideRow, deleteGuideRow
createGuide(c) ==
    IF ~req[c].hasGuide THEN Thrown(c, "No guide data")
    ELSE Thrown(c, "sheetsClient.appendGuideRow is not a function")

updateGuide(c) ==
    IF req[c].rowNumber = 0 THEN Thrown(c, "Missing rowNumber")
    ELSE IF ~req[c].hasUpdates
        THEN Thrown(c, "Cannot read properties of undefined (reading 'type')")
    ELSE Thrown(c, "sheetsClient.updateGuideRow is not a function")

deleteGuide(c) ==
    IF req[c].rowNumber = 0 THEN Thrown(c, "Missing rowNumber")
    ELSE Thrown(c, "sheetsClient.deleteGuideRow is not a function")

\* a POST route whose switch falls through to a plain 'Unknown action' and
\* also serves getHistory
PostExec_HistoryAndPlainDefault(c) ==
    /\ pc[c] = "postExec"
    /\ LET action == req[c].action
       IN  Step(c,
             CASE action = "getDashboardData" -> getDashboardData(c)
               [] action = "getGuidesData"    -> getGuidesData(c)
               [] action = "getHistory"       -> getHistory(c)
               [] action = "createFeedback"   -> createFeedback(c)
               [] action = "updateFeedback"   -> updateFeedback(c)
               [] action = "updateStage"      -> updateStage(c)
               [] action = "deleteFeedback"   -> deleteFeedback(c)
               [] action = "bulkUpdateStage"  -> bulkUpdateStage(c)
               [] action = "bulkDelete"       -> bulkDelete(c)
               [] action = "addComment"       -> addComment(c)
               [] action = "getComments"      -> getComments(c)
               [] action = "createGuide"      -> createGuide(c)
               [] action = "updateGuide"      -> updateGuide(c)
               [] action = "deleteGuide"      -> deleteGuide(c)
               [] action = "deleteComment"    -> deleteComment(c)
               [] OTHER -> Return(c, Json(FALSE, "Unknown action", <<>>)))

\* app.post('/api/exec', ...)
PostExec(c) ==
    /\ pc[c] = "postExec"
    /\ LET action == req[c].action
       IN  Step(c,
             CASE action = "getDashboardData" -> getDashboardData(c)
               [] action = "getGuidesData"    -> getGuidesData(c)
               [] action = "createFeedback"   -> createFeedback(c)
               [] action = "updateFeedback"   -> updateFeedback(c)
               [] action = "updateStage"      -> updateStage(c)
               [] action = "deleteFeedback"   -> deleteFeedback(c)
               [] action = "bulkUpdateStage"  -> bulkUpdateStage(c)
               [] action = "bulkDelete"       -> bulkDelete(c)
               [] action = "addComment"       -> addComment(c)
               [] action = "getComments"      -> getComments(c)
               [] action = "createGuide"      -> createGuide(c)
               [] action = "updateGuide"      -> updateGuide(c)
               [] action = "deleteGuide"      -> deleteGuide(c)
               [] action = "deleteComment"    -> deleteComment(c)
               [] OTHER -> Return(c, Json(FALSE, "Unknown action: " \o action, <<>>)))

\* a GET route that also serves deleteFeedback and updateStage
GetExec_ServesWrites(c) ==
    /\ pc[c] = "getExec"
    /\ LET action == req[c].action
       IN  Step(c,
             CASE action = "getDashboardData" -> getDashboardData(c)
               [] action = "getGuidesData"    -> getGuidesData(c)
               [] action = "getHistory"       -> getHistory(c)
               [] action = "deleteFeedback"   -> deleteFeedback(c)
               [] action = "updateStage"      -> updateStage(c)
               [] OTHER ->
                    Return(c, Json(FALSE, "Unknown action or use POST: " \o action, <<>>)))

\* app.get('/api/exec', ...)
GetExec(c) ==
    /\ pc[c] = "getExec"
    /\ LET action == req[c].action
       IN  Step(c,
             CASE action = "getDashboardData" -> getDashboardData(c)
               [] action = "getGuidesData"    -> getGuidesData(c)
               [] action = "getHistory"       -> getHistory(c)
               [] OTHER ->
                    Return(c, Json(FALSE, "Unknown action or use POST: " \o action, <<>>)))

----------------------------------------------------------------------------
(* The action functions from one await to the next.  A call of the remote  *)
(* either succeeds or throws; a call that names a row the grid does not    *)
(* have always throws.                                                     *)

\* getDashboardData, after await sheetsClient.getAllData()
getDashboardData_getAllData(c) ==
    /\ pc[c] = "getDashboardData"
    /\ \E ok \in BOOLEAN :
         Step(c, With(IF ok
                        THEN Return(c, Json(TRUE, "", Dashboard(GetAllData(sheet).rows)))
                        ELSE Thrown(c, RemoteError),
                      Call(c, "getAllData", 0, "", <<>>, ok)))

\* getGuidesData, after await sheetsClient.getGuidesData()
getGuidesData_getGuidesData(c) ==
    /\ pc[c] = "getGuidesData"
    /\ \E ok \in BOOLEAN :
         Step(c, With(IF ok
                        THEN Return(c, Json(TRUE, "", GuidesResult(GetGuidesData(guides).rows)))
                        ELSE Thrown(c, RemoteError),
                      Call(c, "getGuidesData", 0, "", <<>>, ok)))

\* createFeedback, after await sheetsClient.appendRow(row)
createFeedback_appendRow(c) ==
    /\ pc[c] = "createFeedback"
    /\ \E ok \in BOOLEAN :
         Step(c, With(IF ok
                        THEN WithSheet(Return(c, Json(TRUE, "Da tao feedback thanh cong!", <<>>)),
                                       AppendRow(sheet, loc[c].newRow))
                        ELSE Thrown(c, RemoteError),
                      Call(c, "appendRow", 0, "", loc[c].newRow, ok)))

\* updateFeedback, after await sheetsClient.getRow(rowNumber)
updateFeedback_getRow(c) ==
    /\ pc[c] = "updateFeedback_getRow"
    /\ \E ok \in {b \in BOOLEAN : b => InGrid(sheet, req[c].rowNumber)} :
         Step(c, With(IF ~ok THEN Thrown(c, RemoteError)
                      ELSE IF ~req[c].hasUpdates
                        THEN Thrown(c, "Cannot read properties of undefined (reading 'deadline')")
                      ELSE Tick(Goto(c, "updateFeedback_updateRow",
                              [loc[c] EXCEPT
                                 !.timestamp = Timestamp(clock + 1),
                                 !.newRow = MergeRow(GetRow(sheet, req[c].rowNumber),
                                                     req[c].updates,
                                                     Timestamp(clock + 1))])),
                      Call(c, "getRow", req[c].rowNumber, "", <<>>, ok)))

\* updateFeedback, after await sheetsClient.updateRow(rowNumber, newRow).
\* The values handed over are one more than the range A..N holds: what the
\* remote does with them is not decided in this repository.  It either
\* refuses the request, which throws like any failing call, or writes the
\* cells that lie within the range.
updateFeedback_updateRow(c) ==
    /\ pc[c] = "updateFeedback_updateRow"
    /\ \E ok \in {b \in BOOLEAN : b => InGrid(sheet, req[c].rowNumber)} :
         Step(c, With(IF ok
                        THEN WithSheet(Return(c, Json(TRUE, "Cap nhat thanh cong!", <<>>)),
                                       UpdateRow(sheet, req[c].rowNumber, loc[c].newRow))
                        ELSE Thrown(c, RemoteError),
                      Call(c, "updateRow", req[c].rowNumber, "A:N", loc[c].newRow, ok)))

\* updateStage, after await sheetsClient.updateCell(rowNumber, 'F', newStage)
updateStage_F(c) ==
    /\ pc[c] = "updateStage_F"
    /\ \E ok \in {b \in BOOLEAN : b => InGrid(sheet, req[c].rowNumber)} :
         Step(c, With(IF ok
                        THEN WithSheet(Goto(c, "updateStage_O", loc[c]),
                                       UpdateCell(sheet, req[c].rowNumber, "F", req[c].newStage))
                        ELSE Thrown(c, RemoteError),
                      Call(c, "updateCell", req[c].rowNumber, "F", req[c].newStage, ok)))

\* updateStage, after await sheetsClient.updateCell(rowNumber, 'O', timestamp)
updateStage_O(c) ==
    /\ pc[c] = "updateStage_O"
    /\ \E ok \in {b \in BOOLEAN : b => InGrid(sheet, req[c].rowNumber)} :
         Step(c, With(IF ok
                        THEN WithSheet(Return(c, Json(TRUE, "Da cap nhat Stage", <<>>)),
                                       UpdateCell(sheet, req[c].rowNumber, "O",
                                                  Word(loc[c].timestamp)))
                        ELSE Thrown(c, RemoteError),
                      Call(c, "updateCell", req[c].rowNumber, "O", Word(loc[c].timestamp), ok)))

\* bulkUpdateStage: the loop body, after the updateCell of column F
bulkUpdateStage_F(c) ==
    /\ pc[c] = "bulkUpdateStage_F"
    /\ LET rowNumber == Head(loc[c].queue)
       IN  \E ok \in {b \in BOOLEAN : b => InGrid(sheet, rowNumber)} :
             Step(c, With(IF ok
                            THEN WithSheet(Goto(c, "bulkUpdateStage_O", loc[c]),
                                           UpdateCell(sheet, rowNumber, "F", req[c].newStage))
                            ELSE Thrown(c, RemoteError),
                          Call(c, "updateCell", rowNumber, "F", req[c].newStage, ok)))

\* bulkUpdateStage: the loop body, after the updateCell of column O
bulkUpdateStage_O(c) ==
    /\ pc[c] = "bulkUpdateStage_O"
    /\ LET rowNumber == Head(loc[c].queue)
           rest == Tail(loc[c].queue)
       IN  \E ok \in {b \in BOOLEAN : b => InGrid(sheet, rowNumber)} :
             Step(c, With(IF ~ok THEN Thrown(c, RemoteError)
                          ELSE WithSheet(
                                 IF rest = <<>>
                                   THEN Return(c, Json(TRUE, "Da cap nhat cac muc", <<>>))
                                   ELSE Goto(c, "bulkUpdateStage_F", [loc[c] EXCEPT !.queue = rest]),
                                 UpdateCell(sheet, rowNumber, "O", Word(loc[c].timestamp))),
                          Call(c, "updateCell", rowNumber, "O", Word(loc[c].timestamp), ok)))

\* SheetsClient.deleteRow, after await spreadsheets.get (the sheet id)
deleteRow_get(c) ==
    /\ pc[c] = "deleteRow_get"
    /\ \E ok \in BOOLEAN :
         Step(c, With(IF ok THEN Goto(c, "deleteRow_batchUpdate", loc[c])
                      ELSE Thrown(c, RemoteError),
                      Call(c, "getSpreadsheet", 0, "", <<>>, ok)))

\* SheetsClient.deleteRow, after await spreadsheets.batchUpdate, and what
\* deleteFeedback and bulkDelete do when it returns
deleteRow_batchUpdate(c) ==
    /\ pc[c] = "deleteRow_batchUpdate"
    /\ LET rowNumber == Head(loc[c].queue)
           rest == Tail(loc[c].queue)
       IN  \E ok \in {b \in BOOLEAN : b => InGrid(sheet, rowNumber)} :
             Step(c, With(IF ~ok THEN Thrown(c, RemoteError)
                          ELSE WithSheet(
                                 IF rest # <<>>
                                   THEN Goto(c, "deleteRow_get", [loc[c] EXCEPT !.queue = rest])
                                 ELSE IF req[c].action = "bulkDelete"
                                   THEN Return(c, Json(TRUE, "Da xoa cac muc", <<>>))
                                 ELSE Return(c, Json(TRUE, "Da xoa feedback!", <<>>)),
                                 DeleteRow(sheet, rowNumber)),
                          Call(c, "deleteRow", rowNumber, "", <<>>, ok)))

\* addComment, after await sheetsClient.getRow(rowNumber)
addComment_getRow(c) ==
    /\ pc[c] = "addComment_getRow"
    /\ \E ok \in {b \in BOOLEAN : b => InGrid(sheet, req[c].rowNumber)} :
         Step(c, With(IF ~ok THEN Thrown(c, RemoteError)
                      ELSE Tick(Goto(c, "addComment_updateCell",
                              [loc[c] EXCEPT
                                 !.timestamp = ShortTimestamp(clock + 1),
                                 !.comments =
                                    PushComment(
                                      ParseComments(At(GetRow(sheet, req[c].rowNumber), 7)),
                                      req[c].commentText,
                                      ShortTimestamp(clock + 1))])),
                      Call(c, "getRow", req[c].rowNumber, "", <<>>, ok)))

\* addComment, after await sheetsClient.updateCell(rowNumber, 'H', ...)
addComment_updateCell(c) ==
    /\ pc[c] = "addComment_updateCell"
    /\ \E ok \in {b \in BOOLEAN : b => InGrid(sheet, req[c].rowNumber)} :
         Step(c, With(IF ok
                        THEN WithSheet(Return(c, Json(TRUE, "Da them comment!", loc[c].comments)),
                                       UpdateCell(sheet, req[c].rowNumber, "H",
                                                  JsonStringify(loc[c].comments)))
                        ELSE Thrown(c, RemoteError),
                      Call(c, "updateCell", req[c].rowNumber, "H",
                           JsonStringify(loc[c].comments), ok)))

\* getComments, after await sheetsClient.getRow(rowNumber)
getComments_getRow(c) ==
    /\ pc[c] = "getComments_getRow"
    /\ \E ok \in {b \in BOOLEAN : b => InGrid(sheet, req[c].rowNumber)} :
         Step(c, With(IF ok
                        THEN Return(c, Json(TRUE, "",
                               ParseComments(At(GetRow(sheet, req[c].rowNumber), 7))))
                        ELSE Thrown(c, RemoteError),
                      Call(c, "getRow", req[c].rowNumber, "", <<>>, ok)))

\* deleteComment, after await sheetsClient.getRow(rowNumber)
deleteComment_getRow(c) ==
    /\ pc[c] = "deleteComment_getRow"
    /\ LET comments == ParseCommentsStrict(At(GetRow(sheet, req[c].rowNumber), 7))
           commentIndex == req[c].commentIndex
       IN  \E ok \in {b \in BOOLEAN : b => InGrid(sheet, req[c].rowNumber)} :
             Step(c, With(IF ~ok THEN Thrown(c, RemoteError)
                          ELSE IF commentIndex >= 0 /\ commentIndex < Len(comments)
                            THEN Goto(c, "deleteComment_updateCell",
                                   [loc[c] EXCEPT !.comments = Splice(comments, commentIndex)])
                          ELSE Return(c, Json(FALSE, "Invalid comment index", <<>>)),
                          Call(c, "getRow", req[c].rowNumber, "", <<>>, ok)))

\* deleteComment, after await sheetsClient.updateCell(rowNumber, 'H', ...)
deleteComment_updateCell(c) ==
    /\ pc[c] = "deleteComment_updateCell"
    /\ \E ok \in {b \in BOOLEAN : b => InGrid(sheet, req[c].rowNumber)} :
         Step(c, With(IF ok
                        THEN WithSheet(Return(c, Json(TRUE, "Deleted comment!", loc[c].comments)),
                                       UpdateCell(sheet, req[c].rowNumber, "H",
                                                  JsonStringify(loc[c].comments)))
                        ELSE Thrown(c, RemoteError),
                      Call(c, "updateCell", req[c].rowNumber, "H",
                           JsonStringify(loc[c].comments), ok)))

----------------------------------------------------------------------------
(* The sheets and requests the model is run on.                            *)

\* a data row whose every cell holds a value of its own, tagged k
\* (columns A..O: ID, Deadline, Host, Shop, Link, Stage, Tags, Dev_note,
\* Image_note, Note, Time, Message, MessageID, ImageID, UpdatedAt)
SampleRow(k) ==
    <<Word("id" \o ToString(k)), Word("deadline" \o ToString(k)),
      Word("host" \o ToString(k)), Word("shop" \o ToString(k)),
      Word("link" \o ToString(k)), Word("Feedback"),
      Word("tags" \o ToString(k)), Empty,
      Word("image" \o ToString(k)), Word("note" \o ToString(k)),
      Word("time" \o ToString(k)), Word("message" \o ToString(k)),
      Word("mid" \o ToString(k)), Word("iid" \o ToString(k)),
      Word("ts0")>>

HeaderRow == [j \in 1..NumCols |-> Word("header")]

\* two header rows and n data rows
SampleSheet(n) ==
    <<HeaderRow, HeaderRow>> \o [k \in 1..n |-> SampleRow(k + HeaderRows)]

SampleGuides ==
    << <<Word("Type"), Word("Template"), Word("Link"), Word("App")>>,
       <<Word("Huong dan"), Word("template1"), Word("link1"), Word("app1")>>,
       <<Empty, Empty, Empty, Empty>>,
       <<Word("Video"), Empty, Word("link2"), Empty>> >>

\* the row numbers a request may name: none (0), the data rows, and one
\* past the grid
RowNumbers == {0} \cup (HeaderRows + 1)..(HeaderRows + MaxRows + 1)

\* the arrays of at most n elements of S
RECURSIVE SeqsUpTo(_, _)
SeqsUpTo(S, n) ==
    IF n = 0 THEN {<<>>}
    ELSE LET shorter == SeqsUpTo(S, n - 1)
         IN  shorter \cup {Append(q, x) : q \in shorter, x \in S}

InitWith(keys, sheets, active) ==
    /\ API_KEY \in keys
    /\ sheet \in sheets
    /\ guides = SampleGuides
    /\ clock = 0
    /\ pc = [c \in Clients |-> IF c \in active THEN "idle" ELSE "off"]
    /\ req = [c \in Clients |-> NoRequest]
    /\ loc = [c \in Clients |-> NoLocals]
    /\ res = [c \in Clients |-> <<>>]
    /\ calls = <<>>
    /\ before = [c \in Clients |-> <<>>]
    /\ sent = <<>>
    /\ seen = [c \in Clients |-> <<>>]

\* no request of client c has arrived yet
Idle(c) == pc[c] = "idle"

\* a request arrives and express hands it to the first layer mounted on /api
Receive(c, r) ==
    /\ pc[c] = "idle"
    /\ pc' = [pc EXCEPT ![c] = "middleware"]
    /\ req' = [req EXCEPT ![c] = r]
    /\ before' = [before EXCEPT ![c] = sheet]
    /\ UNCHANGED <<API_KEY, sheet, guides, clock, loc, res, calls, sent, seen>>

----------------------------------------------------------------------------
(* The Telegram webhook (part_001, and its first version in part_003).     *)
(* The route is registered before the API key middleware, so a request to  *)
(* it reaches the handler directly.                                        *)

\* res.json({ ok: true })
OkTrue == [status |-> 200, ok |-> TRUE]

\* TELEGRAM_ID_TO_HOST[userId] || null
TELEGRAM_ID_TO_HOST(userId) ==
    CASE userId = "814408956" -> Word("Quoc")
      [] userId = "852487488" -> Word("Taiz")
      [] userId = "642649821" -> Word("Lam")
      [] userId = "801593125" -> Word("Nghia")
      [] OTHER -> Undefined

\* String.prototype.toLowerCase, token by token
LowerToken(tok) ==
    CASE tok = Ch("Done") -> Ch("done")
      [] tok = Ch("DONE") -> Ch("done")
      [] tok = Ch("Taiz") -> Ch("taiz")
      [] tok = Ch("Quoc") -> Ch("quoc")
      [] OTHER -> tok
ToLowerCase(t) == [i \in 1..Len(t) |-> LowerToken(t[i])]

\* hostMap[requestedHost.toLowerCase()] || requestedHost
HostMap(requestedHost) ==
    LET name == ToLowerCase(requestedHost)
    IN  CASE name = Word("quoc") -> Word("Quoc")
          [] name \in {Word("taiz"), Word("tai")} -> Word("Taiz")
          [] name = Word("lam") -> Word("Lam")
          [] name = Word("nghia") -> Word("Nghia")
          [] name = Word("tuan") -> Word("Tuan")
          [] OTHER -> requestedHost

\* lowerText === 'done' || lowerText.startsWith('done ' | 'done-' | 'done:')
StartsWithDone(lowerText) ==
    \/ lowerText = Word("done")
    \/ \E sep \in {Ch(" "), Ch("-"), Ch(":")} : StartsWith(lowerText, <<Ch("done"), sep>>)

\* replyText.replace(/^done[\s\-:]*/i, '').trim()
RECURSIVE DropSeparators(_)
DropSeparators(t) ==
    IF t # <<>> /\ Head(t) \in {Ch(" "), Ch("-"), Ch(":")} THEN DropSeparators(Tail(t)) ELSE t
ExtraText(replyText) ==
    IF replyText # <<>> /\ LowerToken(Head(replyText)) = Ch("done")
        THEN Trim(DropSeparators(Tail(replyText)))
        ELSE Trim(replyText)

\* the body handed to the sendMessage API
Message(text) == [chat_id |-> "chat", text |-> text]

\* part_001: the message that shows one feedback, with its row number
FeedbackMessage(fb) ==
    <<Ch("ID: #" \o ToString(fb.rowNumber)), Ch("Shop: ")>>
    \o (IF Truthy(fb.shop) THEN fb.shop ELSE Word("N/A"))
    \o <<Ch("File: ")>>
    \o (IF Truthy(fb.link) THEN fb.link ELSE Word("KHONG co file"))
    \o (IF Truthy(fb.note) THEN <<Ch("Note: ")>> \o fb.note
        ELSE IF Truthy(fb.message) THEN <<Ch("Note: ")>> \o fb.message
        ELSE Empty)

\* part_003: the one message that lists all feedbacks of a host
RECURSIVE FeedbackList(_, _)
FeedbackList(feedbacks, host) ==
    IF feedbacks = <<>> THEN Empty
    ELSE LET fb == Head(feedbacks)
         IN  (IF Truthy(fb.shop) THEN fb.shop ELSE Word("N/A"))
             \o <<Ch(" => ")>> \o host
             \o (IF fb.stage = Word("Feedback") THEN Empty ELSE Word(" gap"))
             \o (IF Truthy(fb.tags) THEN fb.tags ELSE Empty)
             \o (IF Truthy(fb.imageNote) \/ Truthy(fb.imageId)
                    THEN Word("File Feedback") ELSE Word("KHONG co file"))
             \o (IF Truthy(fb.note) THEN fb.note ELSE OrEmpty(fb.message))
             \o FeedbackList(Tail(feedbacks), host)

\* rows.filter(r => r.host === host && r.stage === 'Feedback')
FeedbacksOf(rows, host) ==
    SelectSeq(rows, LAMBDA r : r.host = host /\ r.stage = Word("Feedback"))

\* part_003 also lists the stage 'Da bao khach'
FeedbacksOf_part003(rows, host) ==
    SelectSeq(rows, LAMBDA r : r.host = host
                               /\ r.stage \in {Word("Feedback"), Word("Da bao khach")})

\* the handler answers: res.json({ ok: true })
Answer(c) == [Base(c) EXCEPT !.pc = "done", !.out = <<OkTrue>>]

\* await sendTelegramMessage(...) for each text in turn; `then` says what
\* follows the last of them
Send(c, l, texts, then) ==
    Goto(c, "sendTelegramMessage", [l EXCEPT !.outbox = texts, !.then = then])

\* an outer catch block that only logs
Catch_LogOnly(c, message) ==
    IF loc[c].inner
        THEN Send(c, [loc[c] EXCEPT !.error = message, !.inner = FALSE],
                  <<Word("Loi: " \o message)>>, "respond")
        ELSE [Base(c) EXCEPT !.pc = "done",
                             !.loc = [loc[c] EXCEPT !.threw = TRUE, !.error = message]]

\* an exception in the handler: within the inner try of the reply branch,
\* its catch block sends the error to the chat and the handler answers;
\* elsewhere the outer catch block answers
Catch(c, message) ==
    IF loc[c].inner
        THEN Send(c, [loc[c] EXCEPT !.error = message, !.inner = FALSE],
                  <<Word("Loi: " \o message)>>, "respond")
        ELSE [Answer(c) EXCEPT !.loc = [loc[c] EXCEPT !.threw = TRUE, !.error = message]]

\* whether the reply carries an image: a document of an image type, or a photo
HasImage(u) == u.attachment \in {"document", "photo"}

\* the text of the request, trimmed
TextOf(u) == Trim(OrEmpty(u.text))
\* text || message.caption || ''
ReplyText(u) ==
    IF TextOf(u) # Empty THEN TextOf(u) ELSE OrEmpty(u.caption)

TypeErrorId == "Cannot read properties of undefined (reading 'id')"

\* a handler that looks for /start and /help before it looks for a reply
TelegramWebhook_CommandsFirst(c) ==
    LET u         == req[c].update
        text      == TextOf(u)
        replyText == ReplyText(u)
        host      == TELEGRAM_ID_TO_HOST(u.userId)
    IN  IF ~u.hasMessage THEN Answer(c)
        ELSE IF ~u.hasChat \/ ~u.hasFrom THEN Catch(c, TypeErrorId)
        ELSE IF text = Word("/myid") THEN Send(c, loc[c], <<Word("User ID: " \o u.userId)>>, "respond")
        ELSE IF text = Word("/groupid") THEN Send(c, loc[c], <<Word("Chat ID: chat")>>, "respond")
        ELSE IF text = Word("//") \/ StartsWith(text, <<Ch("//"), Ch(" ")>>)
            THEN IF ~Truthy(host)
                   THEN Send(c, loc[c], <<Word("Chua duoc dang ky: " \o u.userId)>>, "respond")
                   ELSE Goto(c, "telegramWebhook_getAllData",
                          [loc[c] EXCEPT !.targetHost =
                              IF StartsWith(text, <<Ch("//"), Ch(" ")>>)
                                  THEN HostMap(Trim(SubSeq(text, 3, Len(text))))
                                  ELSE host])
        ELSE IF text = Word("/start") THEN Send(c, loc[c], <<Word("Xin chao User!")>>, "respond")
        ELSE IF text = Word("/help") THEN Send(c, loc[c], <<Word("Huong dan su dung Bot")>>, "respond")
        ELSE IF u.hasReply /\ u.hasMatch
            THEN IF StartsWithDone(ToLowerCase(replyText))
                   THEN Tick(Goto(c, "telegramWebhook_updateCell_F",
                          [loc[c] EXCEPT !.inner = TRUE, !.branch = "done",
                                         !.rowNumber = u.replyRow,
                                         !.timestamp = Timestamp(clock + 1)]))
                   ELSE LET l == [loc[c] EXCEPT
                                    !.inner = TRUE, !.branch = "comment",
                                    !.rowNumber = u.replyRow,
                                    !.commentText = Word("[Telegram] User: ") \o replyText]
                        IN  IF HasImage(u) THEN Goto(c, "uploadTelegramPhotoToR2", l)
                            ELSE Goto(c, "addCommentToFeedback_getRow", l)
        ELSE Answer(c)

\* part_001, app.post('/api/telegram-webhook'), up to its first await
TelegramWebhook(c) ==
    LET u         == req[c].update
        text      == TextOf(u)
        replyText == ReplyText(u)
        host      == TELEGRAM_ID_TO_HOST(u.userId)
    IN  IF ~u.hasMessage THEN Answer(c)
        ELSE IF ~u.hasChat \/ ~u.hasFrom THEN Catch(c, TypeErrorId)
        ELSE IF text = Word("/myid") THEN Send(c, loc[c], <<Word("User ID: " \o u.userId)>>, "respond")
        ELSE IF text = Word("/groupid") THEN Send(c, loc[c], <<Word("Chat ID: chat")>>, "respond")
        ELSE IF text = Word("//") \/ StartsWith(text, <<Ch("//"), Ch(" ")>>)
            THEN IF ~Truthy(host)
                   THEN Send(c, loc[c], <<Word("Chua duoc dang ky: " \o u.userId)>>, "respond")
                   ELSE Goto(c, "telegramWebhook_getAllData",
                          [loc[c] EXCEPT !.targetHost =
                              IF StartsWith(text, <<Ch("//"), Ch(" ")>>)
                                  THEN HostMap(Trim(SubSeq(text, 3, Len(text))))
                                  ELSE host])
        ELSE IF u.hasReply /\ u.hasMatch
            THEN IF StartsWithDone(ToLowerCase(replyText))
                   THEN Tick(Goto(c, "telegramWebhook_updateCell_F",
                          [loc[c] EXCEPT !.inner = TRUE, !.branch = "done",
                                         !.rowNumber = u.replyRow,
                                         !.timestamp = Timestamp(clock + 1)]))
                   ELSE LET l == [loc[c] EXCEPT
                                    !.inner = TRUE, !.branch = "comment",
                                    !.rowNumber = u.replyRow,
                                    !.commentText = Word("[Telegram] User: ") \o replyText]
                        IN  IF HasImage(u) THEN Goto(c, "uploadTelegramPhotoToR2", l)
                            ELSE Goto(c, "addCommentToFeedback_getRow", l)
        ELSE IF text = Word("/start") THEN Send(c, loc[c], <<Word("Xin chao User!")>>, "respond")
        ELSE IF text = Word("/help") THEN Send(c, loc[c], <<Word("Huong dan su dung Bot")>>, "respond")
        ELSE Answer(c)

\* part_003, app.post('/api/telegram-webhook'), up to its first await
TelegramWebhook_part003(c) ==
    LET u    == req[c].update
        text == TextOf(u)
        host == TELEGRAM_ID_TO_HOST(u.userId)
    IN  IF ~u.hasMessage THEN Answer(c)
        ELSE IF ~u.hasChat \/ ~u.hasFrom THEN Catch(c, TypeErrorId)
        ELSE IF text = Word("/myid") THEN Send(c, loc[c], <<Word("User ID: " \o u.userId)>>, "respond")
        ELSE IF text = Word("//")
            THEN IF ~Truthy(host)
                   THEN Send(c, loc[c], <<Word("Chua duoc dang ky: " \o u.userId)>>, "respond")
                   ELSE Goto(c, "telegramWebhook_part003_getAllData",
                             [loc[c] EXCEPT !.targetHost = host])
        ELSE IF text = Word("/start") THEN Send(c, loc[c], <<Word("Xin chao User!")>>, "respond")
        ELSE IF text = Word("/help") THEN Send(c, loc[c], <<Word("Huong dan su dung Bot")>>, "respond")
        ELSE Answer(c)

\* the handler of part_001 runs up to its first await
telegramWebhook(c) ==
    /\ pc[c] = "telegramWebhook"
    /\ Step(c, TelegramWebhook(c))

\* the handler of part_003 runs up to its first await
telegramWebhook_part003(c) ==
    /\ pc[c] = "telegramWebhook_part003"
    /\ Step(c, TelegramWebhook_part003(c))

\* the // command of part_001, after await sheetsClient.getAllData()
telegramWebhook_getAllData(c) ==
    /\ pc[c] = "telegramWebhook_getAllData"
    /\ \E ok \in BOOLEAN :
         Step(c, With(IF ~ok THEN Catch(c, RemoteError)
                      ELSE LET userFeedbacks == FeedbacksOf(GetAllData(sheet).rows,
                                                            loc[c].targetHost)
                           IN  IF userFeedbacks = <<>>
                                 THEN Send(c, loc[c],
                                           <<Word("Khong co feedback nao cho ") \o loc[c].targetHost>>,
                                           "respond")
                                 ELSE Send(c, loc[c],
                                           [i \in 1..Len(userFeedbacks) |->
                                               FeedbackMessage(userFeedbacks[i])],
                                           "respond"),
                      Call(c, "getAllData", 0, "", <<>>, ok)))

\* the // command of part_003, after await sheetsClient.getAllData()
telegramWebhook_part003_getAllData(c) ==
    /\ pc[c] = "telegramWebhook_part003_getAllData"
    /\ \E ok \in BOOLEAN :
         Step(c, With(IF ~ok THEN Catch(c, RemoteError)
                      ELSE LET userFeedbacks == FeedbacksOf_part003(GetAllData(sheet).rows,
                                                                    loc[c].targetHost)
                           IN  IF userFeedbacks = <<>>
                                 THEN Send(c, loc[c],
                                           <<Word("Khong co feedback nao cho ") \o loc[c].targetHost>>,
                                           "respond")
                                 ELSE Send(c, loc[c],
                                           <<FeedbackList(userFeedbacks, loc[c].targetHost)>>,
                                           "respond"),
                      Call(c, "getAllData", 0, "", <<>>, ok)))

\* after await sendTelegramMessage(chatId, text): the message went out, or
\* the token is missing or the fetch failed, which the function only logs.
\* Then the next message, or what follows the last one.
sendTelegramMessage(c) ==
    /\ pc[c] = "sendTelegramMessage"
    /\ \E delivered \in BOOLEAN :
         LET rest == Tail(loc[c].outbox)
             o    == IF rest # <<>>
                       THEN Goto(c, "sendTelegramMessage", [loc[c] EXCEPT !.outbox = rest])
                     ELSE IF loc[c].then = "refresh"
                       THEN Goto(c, "telegramWebhook_refresh", [loc[c] EXCEPT !.outbox = rest])
                     ELSE [Answer(c) EXCEPT !.loc = [loc[c] EXCEPT !.outbox = rest]]
         IN  Step(c, IF delivered
                       THEN [o EXCEPT !.sent = <<Message(Head(loc[c].outbox))>>]
                       ELSE o)

\* a reply that starts with "done", after await updateCell(rowNumber, 'F', 'Done')
telegramWebhook_updateCell_F(c) ==
    /\ pc[c] = "telegramWebhook_updateCell_F"
    /\ \E ok \in {b \in BOOLEAN : b => InGrid(sheet, loc[c].rowNumber)} :
         Step(c, With(IF ok
                        THEN WithSheet(Goto(c, "telegramWebhook_updateCell_O", loc[c]),
                                       UpdateCell(sheet, loc[c].rowNumber, "F", Word("Done")))
                        ELSE Catch(c, RemoteError),
                      Call(c, "updateCell", loc[c].rowNumber, "F", Word("Done"), ok)))

\* ... after await updateCell(rowNumber, 'O', timestamp): the comment to
\* add, if the reply carries more text or an image
telegramWebhook_updateCell_O(c) ==
    /\ pc[c] = "telegramWebhook_updateCell_O"
    /\ \E ok \in {b \in BOOLEAN : b => InGrid(sheet, loc[c].rowNumber)} :
         LET u         == req[c].update
             extraText == ExtraText(ReplyText(u))
             o == IF HasImage(u)
                    THEN Goto(c, "uploadTelegramPhotoToR2",
                           [loc[c] EXCEPT !.commentText =
                               Word("[Telegram] User: ")
                               \o (IF extraText # Empty THEN extraText ELSE Word("Done"))])
                  ELSE IF extraText # Empty
                    THEN Goto(c, "addCommentToFeedback_getRow",
                           [loc[c] EXCEPT !.commentText = Word("[Telegram] User: ") \o extraText])
                  ELSE Send(c, loc[c], <<Word("#" \o ToString(loc[c].rowNumber) \o " -> Done!")>>,
                            "refresh")
         IN  Step(c, With(IF ok
                            THEN WithSheet(o, UpdateCell(sheet, loc[c].rowNumber, "O",
                                                         Word(loc[c].timestamp)))
                            ELSE Catch(c, RemoteError),
                          Call(c, "updateCell", loc[c].rowNumber, "O",
                               Word(loc[c].timestamp), ok)))

\* after await uploadTelegramPhotoToR2(file_id): the function catches its
\* own failures and returns either the CDN URL or a text that starts with
\* 'Error'; the comment text gets a new line and that text
uploadTelegramPhotoToR2(c) ==
    /\ pc[c] = "uploadTelegramPhotoToR2"
    /\ \E photoUrl \in {Word("cdn/telegram/photo.jpg"), Word("Error: Could not download file")} :
         Step(c, Goto(c, "addCommentToFeedback_getRow",
                      [loc[c] EXCEPT !.commentText = @ \o <<Ch("\n")>> \o photoUrl]))

\* addCommentToFeedback, after await sheetsClient.getRow(rowNumber)
addCommentToFeedback_getRow(c) ==
    /\ pc[c] = "addCommentToFeedback_getRow"
    /\ \E ok \in {b \in BOOLEAN : b => InGrid(sheet, loc[c].rowNumber)} :
         Step(c, With(IF ~ok THEN Catch(c, RemoteError)
                      ELSE Tick(Goto(c, "addCommentToFeedback_updateCell",
                              [loc[c] EXCEPT !.comments =
                                  PushTelegramComment(
                                    ParseComments(At(GetRow(sheet, loc[c].rowNumber), 7)),
                                    loc[c].commentText,
                                    ShortTimestamp(clock + 1))])),
                      Call(c, "getRow", loc[c].rowNumber, "", <<>>, ok)))

\* addCommentToFeedback, after await updateCell(rowNumber, 'H', ...); back
\* in the handler the "done" reply goes on to tell the chat
addCommentToFeedback_updateCell(c) ==
    /\ pc[c] = "addCommentToFeedback_updateCell"
    /\ \E ok \in {b \in BOOLEAN : b => InGrid(sheet, loc[c].rowNumber)} :
         Step(c, With(IF ~ok THEN Catch(c, RemoteError)
                      ELSE WithSheet(
                             IF loc[c].branch = "done"
                               THEN Send(c, loc[c],
                                         <<Word("#" \o ToString(loc[c].rowNumber) \o " -> Done!")>>,
                                         "refresh")
                               ELSE Answer(c),
                             UpdateCell(sheet, loc[c].rowNumber, "H",
                                        JsonStringify(loc[c].comments))),
                      Call(c, "updateCell", loc[c].rowNumber, "H",
                           JsonStringify(loc[c].comments), ok)))

\* the "done" reply, after await sheetsClient.getAllData(): the feedbacks
\* that remain for the sender's host
telegramWebhook_refresh(c) ==
    /\ pc[c] = "telegramWebhook_refresh"
    /\ \E ok \in BOOLEAN :
         Step(c, With(IF ~ok THEN Catch(c, RemoteError)
                      ELSE LET remainingFeedbacks ==
                                   FeedbacksOf(GetAllData(sheet).rows,
                                               TELEGRAM_ID_TO_HOST(req[c].update.userId))
                           IN  IF remainingFeedbacks # <<>>
                                 THEN Send(c, loc[c],
                                           <<Word("Con " \o ToString(Len(remainingFeedbacks))
                                                  \o " feedback:")>>
                                           \o [i \in 1..Len(remainingFeedbacks) |->
                                                 FeedbackMessage(remainingFeedbacks[i])],
                                           "respond")
                                 ELSE Send(c, loc[c], <<Word("Khong con feedback nao!")>>,
                                           "respond"),
                      Call(c, "getAllData", 0, "", <<>>, ok)))

\* a Telegram update arrives at a deployment of part_001 ("telegramWebhook")
\* or of part_003 ("telegramWebhook_part003"): the route comes first
ReceiveWebhook(c, u, handler) ==
    /\ pc[c] = "idle"
    /\ pc' = [pc EXCEPT ![c] = handler]
    /\ req' = [req EXCEPT ![c] = [NoRequest EXCEPT !.method = "POST",
                                                    !.path = "/api/telegram-webhook",
                                                    !.update = u]]
    /\ before' = [before EXCEPT ![c] = sheet]
    /\ UNCHANGED <<API_KEY, sheet, guides, clock, loc, res, calls, sent, seen>>

----------------------------------------------------------------------------
(* Spec: one client, one request to /api/exec of any action, with or       *)
(* without the API key.                                                    *)

Keys == {"none", "wrong", "secret"}

ActionNames ==
    {"getDashboardData", "getGuidesData", "getHistory", "createFeedback",
     "updateFeedback", "updateStage", "deleteFeedback", "bulkUpdateStage",
     "bulkDelete", "addComment", "getComments", "createGuide", "updateGuide",
     "deleteGuide", "deleteComment", "undefined", "dropTable"}

SomeFeedback ==
    [f \in FeedbackFields |-> IF f \in {"host", "shop", "note"} THEN Word("new" \o f)
                              ELSE Undefined]

\* the bodies sent along with an action
Bodies(r) ==
    {r,
     [r EXCEPT !.rowNumber = HeaderRows + 1, !.newStage = Word("Done"),
               !.commentText = <<Ch(" "), Ch("hi"), Ch(" ")>>,
               !.rowNumbers = <<HeaderRows + 1, HeaderRows + 2>>,
               !.hasUpdates = TRUE,
               !.updates = [NoUpdates EXCEPT !["stage"] = Word("Done")],
               !.hasIndex = TRUE, !.commentIndex = 0,
               !.hasFeedback = TRUE, !.feedback = SomeFeedback,
               !.hasGuide = TRUE],
     [r EXCEPT !.rowNumber = HeaderRows + MaxRows + 1, !.newStage = Word("Done"),
               !.commentText = Word("hi"),
               !.rowNumbers = <<HeaderRows + MaxRows + 1>>,
               !.hasIndex = TRUE, !.commentIndex = 1]}

ExecRequests ==
    {[b EXCEPT !.key = k] :
        k \in Keys,
        b \in UNION {Bodies(Post(a)) \cup Bodies(Get(a)) : a \in ActionNames}}

\* a sheet whose first data row holds one comment
CommentedSheet ==
    [SampleSheet(MaxRows) EXCEPT
        ![HeaderRows + 1][8] = JsonStringify(<<Comment(Word("first"), "hm0", "User")>>)]

Init == InitWith({"", "secret"}, {CommentedSheet}, {1})

Next ==
    \E c \in Clients :
        \/ Idle(c) /\ \E r \in ExecRequests : Receive(c, r)
        \/ ApiKeyMiddleware(c)
        \/ PostExec(c)
        \/ GetExec(c)
        \/ getDashboardData_getAllData(c)
        \/ getGuidesData_getGuidesData(c)
        \/ createFeedback_appendRow(c)
        \/ updateFeedback_getRow(c)
        \/ updateFeedback_updateRow(c)
        \/ updateStage_F(c)
        \/ updateStage_O(c)
        \/ bulkUpdateStage_F(c)
        \/ bulkUpdateStage_O(c)
        \/ deleteRow_get(c)
        \/ deleteRow_batchUpdate(c)
        \/ addComment_getRow(c)
        \/ addComment_updateCell(c)
        \/ getComments_getRow(c)
        \/ deleteComment_getRow(c)
        \/ deleteComment_updateCell(c)

Spec == Init /\ [][Next]_vars

----------------------------------------------------------------------------
(* SpecBulk: one client, one bulkDelete of any array of row numbers.       *)

BulkRequests ==
    {[Post("bulkDelete") EXCEPT !.rowNumbers = q] :
        q \in SeqsUpTo(RowNumbers \ {0}, MaxLen)}

InitBulk == InitWith({""}, {SampleSheet(MaxRows)}, {1})

NextBulk ==
    \E c \in Clients :
        \/ Idle(c) /\ \E r \in BulkRequests : Receive(c, r)
        \/ ApiKeyMiddleware(c)
        \/ PostExec(c)
        \/ deleteRow_get(c)
        \/ deleteRow_batchUpdate(c)

SpecBulk == InitBulk /\ [][NextBulk]_vars

----------------------------------------------------------------------------
(* SpecRead: one client reads the dashboard of a sheet that holds records, *)
(* blank rows and rows without shop and host in any arrangement, or fewer  *)
(* than three rows.                                                        *)

RowKinds == {"blank", "other", "host", "shop", "both"}

\* a row of the given kind whose cells are tagged with the row number n
\* (getAllData reads host from column B and shop from column C)
KindRow(kind, n) ==
    [j \in 1..NumCols |->
        IF kind = "blank" THEN Empty
        ELSE IF j = 2 THEN (IF kind \in {"host", "both"}
                               THEN Word("host" \o ToString(n)) ELSE Empty)
        ELSE IF j = 3 THEN (IF kind \in {"shop", "both"}
                               THEN Word("shop" \o ToString(n)) ELSE Empty)
        ELSE IF j = 9 THEN Word("note" \o ToString(n))
        ELSE Empty]

ReadSheets ==
    {<<>>, <<HeaderRow>>}
    \cup {<<HeaderRow, HeaderRow>> \o [k \in 1..Len(kinds) |-> KindRow(kinds[k], k + HeaderRows)] :
            kinds \in SeqsUpTo(RowKinds, MaxRows)}

InitRead == InitWith({""}, ReadSheets, {1})

NextRead ==
    \E c \in Clients :
        \/ Idle(c) /\ Receive(c, Get("getDashboardData"))
        \/ ApiKeyMiddleware(c)
        \/ GetExec(c)
        \/ getDashboardData_getAllData(c)

SpecRead == InitRead /\ [][NextRead]_vars

----------------------------------------------------------------------------
(* SpecComment: one client, one addComment on the first data row, whose    *)
(* comment cell (column H) holds any text of at most MaxCell tokens, or a  *)
(* stored list of two comments.                                            *)

OldComment(k) == Comment(Word("old" \o ToString(k)), "hm0", "User")

CellAlphabet == {Ch(" "), Ch("["), Ch("]"), Ch("x"), OldComment(1)}

CellContents ==
    SeqsUpTo(CellAlphabet, MaxCell)
    \cup {JsonStringify(<<OldComment(1), OldComment(2)>>),
          <<Ch(" "), Ch("["), OldComment(2), Ch(","), Ch(" "), OldComment(1), Ch("]"), Ch(" ")>>,
          <<Ch("["), Ch("x"), Ch("]"), Ch(" "), Ch("x"), Ch(" "), Ch("["), Ch("x"), Ch("]")>>}

CommentSheets ==
    {[SampleSheet(MaxRows) EXCEPT ![HeaderRows + 1][8] = content] :
        content \in CellContents}

CommentTexts == {Undefined} \cup SeqsUpTo({Ch(" "), Ch("hi")}, MaxText)

CommentRequests ==
    {[Post("addComment") EXCEPT !.rowNumber = n, !.commentText = t] :
        n \in {0, HeaderRows + 1}, t \in CommentTexts}

InitComment == InitWith({""}, CommentSheets, {1})

NextComment ==
    \E c \in Clients :
        \/ Idle(c) /\ \E r \in CommentRequests : Receive(c, r)
        \/ ApiKeyMiddleware(c)
        \/ PostExec(c)
        \/ addComment_getRow(c)
        \/ addComment_updateCell(c)

SpecComment == InitComment /\ [][NextComment]_vars

----------------------------------------------------------------------------
(* SpecUpdate: one client, one updateFeedback or updateStage.  The first   *)
(* data row is full, or ends in empty cells, or is blank; the updates name *)
(* at most MaxFields fields, each with a new value or the empty string.    *)

MaxFields == 2

\* the row with its cells from column `from` on emptied
EmptiedFrom(row, from) == [j \in 1..Len(row) |-> IF j >= from THEN Empty ELSE row[j]]

UpdateSheets ==
    {[SampleSheet(MaxRows) EXCEPT ![HeaderRows + 1] = EmptiedFrom(@, from)] :
        from \in {1, 11, NumCols + 1}}

\* the updates objects that define exactly the fields in S, each with a
\* new value or with the empty string
UpdatesOver(S) ==
    {[f \in UpdateFields |->
        IF f \notin S THEN Undefined
        ELSE IF f \in E THEN Empty ELSE Word("new" \o f)] : E \in SUBSET S}

FieldSets == {S \in SUBSET UpdateFields : Cardinality(S) <= MaxFields}

UpdateRequests ==
    {[Post("updateFeedback") EXCEPT !.rowNumber = n] : n \in RowNumbers}
    \cup {[Post("updateFeedback") EXCEPT !.rowNumber = n, !.hasUpdates = TRUE, !.updates = u] :
            n \in RowNumbers, u \in UNION {UpdatesOver(S) : S \in FieldSets}}
    \cup {[Post("updateStage") EXCEPT !.rowNumber = n, !.newStage = v] :
            n \in RowNumbers, v \in {Undefined, Empty, Word("Done")}}

InitUpdate == InitWith({""}, UpdateSheets, {1})

NextUpdate ==
    \E c \in Clients :
        \/ Idle(c) /\ \E r \in UpdateRequests : Receive(c, r)
        \/ ApiKeyMiddleware(c)
        \/ PostExec(c)
        \/ updateFeedback_getRow(c)
        \/ updateFeedback_updateRow(c)
        \/ updateStage_F(c)
        \/ updateStage_O(c)

SpecUpdate == InitUpdate /\ [][NextUpdate]_vars

----------------------------------------------------------------------------
(* SpecWebhook: one Telegram update of any shape arrives at the webhook of *)
(* part_001 or of part_003.  Every call the handler awaits settles, one    *)
(* way or the other, so a handler that can go on eventually does.          *)

\* hosts Quoc and Taiz take the data rows in turn; host and stage stand
\* where getAllData reads them (columns B and E)
WebhookSheet ==
    [i \in 1..(HeaderRows + MaxRows) |->
        IF i <= HeaderRows THEN HeaderRow
        ELSE [SampleRow(i) EXCEPT ![2] = IF i % 2 = 1 THEN Word("Quoc") ELSE Word("Taiz"),
                                  ![5] = Word("Feedback")]]

UserIds == {"814408956", "1"}

CommandTexts ==
    {Empty, Undefined, Word("/myid"), Word("/groupid"), Word("//"),
     <<Ch("//"), Ch(" "), Ch("Taiz")>>, <<Ch(" "), Ch("/start")>>, Word("/help"),
     Word("hello")}

ReplyTexts ==
    {Empty, Word("done"), <<Ch("Done"), Ch(":"), Ch(" "), Ch("fixed")>>,
     Word("donexyz"), Word("see photo"), Word("/help")}

Attachments == {"none", "photo", "document", "file"}

WebhookUpdates ==
    {NoUpdate,
     [NoUpdate EXCEPT !.hasMessage = TRUE, !.hasChat = FALSE],
     [NoUpdate EXCEPT !.hasMessage = TRUE, !.hasFrom = FALSE]}
    \cup {[NoUpdate EXCEPT !.hasMessage = TRUE, !.userId = id, !.text = t] :
            id \in UserIds, t \in CommandTexts}
    \cup {[NoUpdate EXCEPT !.hasMessage = TRUE, !.userId = id, !.text = t,
                           !.caption = IF t = Empty /\ a # "none"
                                         THEN <<Ch("done"), Ch(" "), Ch("ok")>> ELSE Empty,
                           !.hasReply = TRUE, !.hasMatch = n > 0, !.replyRow = n - 1,
                           !.attachment = a] :
            id \in UserIds, t \in ReplyTexts, a \in Attachments,
            n \in {0, 1, HeaderRows + 2, HeaderRows + MaxRows + 2}}

InitWebhook == InitWith({"", "secret"}, {WebhookSheet}, {1})

\* the steps of a handler that is under way
WebhookStep(c) ==
    \/ telegramWebhook(c)
    \/ telegramWebhook_part003(c)
    \/ telegramWebhook_getAllData(c)
    \/ telegramWebhook_part003_getAllData(c)
    \/ sendTelegramMessage(c)
    \/ telegramWebhook_updateCell_F(c)
    \/ telegramWebhook_updateCell_O(c)
    \/ uploadTelegramPhotoToR2(c)
    \/ addCommentToFeedback_getRow(c)
    \/ addCommentToFeedback_updateCell(c)
    \/ telegramWebhook_refresh(c)

NextWebhook ==
    \E c \in Clients :
        \/ Idle(c) /\ \E u \in WebhookUpdates :
                         \E handler \in {"telegramWebhook", "telegramWebhook_part003"} :
                            ReceiveWebhook(c, u, handler)
        \/ WebhookStep(c)

SpecWebhook ==
    InitWebhook /\ [][NextWebhook]_vars /\ WF_vars(\E c \in Clients : WebhookStep(c))

----------------------------------------------------------------------------
(* SpecDelete: one client, one deleteComment on the first data row, whose   *)
(* comment cell holds any of the contents of SpecComment, with any index    *)
(* from -1 to MaxIndex, or none.                                            *)

MaxIndex == 2

DeleteRequests ==
    {[Post("deleteComment") EXCEPT !.rowNumber = n, !.hasIndex = TRUE, !.commentIndex = i] :
        n \in {0, HeaderRows + 1}, i \in -1..MaxIndex}
    \cup {[Post("deleteComment") EXCEPT !.rowNumber = HeaderRows + 1]}

InitDelete == InitWith({""}, CommentSheets, {1})

NextDelete ==
    \E c \in Clients :
        \/ Idle(c) /\ \E r \in DeleteRequests : Receive(c, r)
        \/ ApiKeyMiddleware(c)
        \/ PostExec(c)
        \/ deleteComment_getRow(c)
        \/ deleteComment_updateCell(c)

SpecDelete == InitDelete /\ [][NextDelete]_vars

----------------------------------------------------------------------------
(* The bot versions of the server (part_001, part_003): the webhook route  *)
(* comes first, then the API key middleware, which lets the paths under    *)
(* /api/telegram- through, then the other routes.                          *)

\* the routes registered after the middleware
Route_part001(r) ==
    IF r.method = "GET" /\ r.path = "/api/telegram-setup" THEN "telegramSetup"
    ELSE IF r.method = "GET" /\ r.path = "/api/telegram-info" THEN "telegramInfo"
    ELSE IF r.method = "GET" /\ r.path = "/api/telegram-image" THEN "telegramImage"
    ELSE Route(r)

\* req.path.startsWith('/telegram-'), for the paths below /api that requests
\* of the model name
StartsWithTelegram(path) ==
    \E rest \in {"webhook", "setup", "info", "image"} : path = "/api/telegram-" \o rest

\* a middleware that checks the key of every request under /api
ApiKeyMiddleware_part001_NoSkip(c) ==
    /\ pc[c] = "middleware"
    /\ Step(c, IF API_KEY = "" THEN Goto(c, Route_part001(req[c]), loc[c])
               ELSE IF req[c].key # API_KEY
                   THEN [Base(c) EXCEPT !.pc = "done", !.out = <<Forbidden>>]
               ELSE Goto(c, Route_part001(req[c]), loc[c]))

\* app.use('/api', ...): req.path is the path below /api
ApiKeyMiddleware_part001(c) ==
    /\ pc[c] = "middleware"
    /\ Step(c, IF StartsWithTelegram(req[c].path)
                   THEN Goto(c, Route_part001(req[c]), loc[c])
               ELSE IF API_KEY = "" THEN Goto(c, Route_part001(req[c]), loc[c])
               ELSE IF req[c].key # API_KEY
                   THEN [Base(c) EXCEPT !.pc = "done", !.out = <<Forbidden>>]
               ELSE Goto(c, Route_part001(req[c]), loc[c]))

\* GET /api/telegram-setup, up to the fetch of setWebhook; TELEGRAM_BOT_TOKEN
\* is configured or not
telegramSetup(c) ==
    /\ pc[c] = "telegramSetup"
    /\ \E botToken \in BOOLEAN :
         Step(c, IF ~botToken
                   THEN Return(c, Json(FALSE, "TELEGRAM_BOT_TOKEN not configured", <<>>))
                 ELSE Goto(c, "telegramSetup_fetch", loc[c]))

\* ... after await fetch(...) and await response.json()
telegramSetup_fetch(c) ==
    /\ pc[c] = "telegramSetup_fetch"
    /\ \E result \in {"ok", "description", "no description", "throws"} :
         Step(c, Return(c, CASE result = "ok" ->
                                  Json(TRUE, "Webhook da duoc thiet lap", <<>>)
                             [] result = "description" ->
                                  Json(FALSE, "description", <<>>)
                             [] result = "no description" ->
                                  Json(FALSE, "Failed to set webhook", <<>>)
                             [] result = "throws" ->
                                  Json(FALSE, RemoteError, <<>>)))

\* GET /api/telegram-info, up to the fetch of getWebhookInfo
telegramInfo(c) ==
    /\ pc[c] = "telegramInfo"
    /\ \E botToken \in BOOLEAN :
         Step(c, IF ~botToken
                   THEN Return(c, Json(FALSE, "TELEGRAM_BOT_TOKEN not configured", <<>>))
                 ELSE Goto(c, "telegramInfo_fetch", loc[c]))

\* ... after await fetch(...) and await response.json()
telegramInfo_fetch(c) ==
    /\ pc[c] = "telegramInfo_fetch"
    /\ \E ok \in BOOLEAN :
         Step(c, Return(c, IF ok THEN Json(TRUE, "", <<>>)
                           ELSE Json(FALSE, RemoteError, <<>>)))

\* GET /api/telegram-image, up to the fetch of getFile
telegramImage(c) ==
    /\ pc[c] = "telegramImage"
    /\ \E botToken \in BOOLEAN :
         Step(c, IF ~req[c].hasFileId
                   THEN Return(c, Json(FALSE, "Missing fileId parameter", <<>>))
                 ELSE IF ~botToken
                   THEN Return(c, Json(FALSE, "Telegram bot token not configured", <<>>))
                 ELSE Goto(c, "telegramImage_fetch", loc[c]))

\* ... after await fetch(...) and await response.json()
telegramImage_fetch(c) ==
    /\ pc[c] = "telegramImage_fetch"
    /\ \E data \in {"ok", "description", "no description", "throws"} :
         Step(c, Return(c, CASE data = "ok" -> Json(TRUE, "", <<>>)
                             [] data = "description" ->
                                  Json(FALSE, "Failed to get file from Telegram: description", <<>>)
                             [] data = "no description" ->
                                  Json(FALSE, "Failed to get file from Telegram: Unknown error", <<>>)
                             [] data = "throws" -> Json(FALSE, RemoteError, <<>>)))

(* SpecTelegram: one request to a bot version of the server: any update    *)
(* to the webhook, or a GET of one of the other Telegram endpoints, or a   *)
(* request to /api/exec, each with a valid key, a wrong key or none.       *)

TelegramPaths ==
    {"/api/telegram-webhook", "/api/telegram-setup", "/api/telegram-info",
     "/api/telegram-image"}

TelegramRequests ==
    {[NoRequest EXCEPT !.method = "GET", !.path = p, !.key = k, !.hasFileId = f] :
        p \in TelegramPaths \ {"/api/telegram-webhook"}, k \in Keys, f \in BOOLEAN}
    \cup {[r EXCEPT !.key = k] : r \in {Post("getHistory"), Get("dropTable")}, k \in Keys}

InitTelegram == InitWith({"", "secret"}, {WebhookSheet}, {1})

NextTelegram ==
    \E c \in Clients :
        \/ Idle(c) /\ \E u \in WebhookUpdates :
                         \E handler \in {"telegramWebhook", "telegramWebhook_part003"} :
                            ReceiveWebhook(c, u, handler)
        \/ WebhookStep(c)
        \/ Idle(c) /\ \E r \in TelegramRequests : Receive(c, r)
        \/ ApiKeyMiddleware_part001(c)
        \/ telegramSetup(c)
        \/ telegramSetup_fetch(c)
        \/ telegramInfo(c)
        \/ telegramInfo_fetch(c)
        \/ telegramImage(c)
        \/ telegramImage_fetch(c)
        \/ PostExec(c)
        \/ GetExec(c)

SpecTelegram == InitTelegram /\ [][NextTelegram]_vars

----------------------------------------------------------------------------
(* SpecDashboard: one client reads the dashboard of a sheet of at most      *)
(* MaxRows records whose hosts and stages repeat, differ or are missing.    *)

\* a record of the given host (column B) and stage (column E, where
\* getAllData reads it)
StatRow(host, stage) ==
    [j \in 1..NumCols |->
        IF j = 2 THEN host ELSE IF j = 3 THEN Word("shop") ELSE IF j = 5 THEN stage
        ELSE Empty]

DashboardSheets ==
    {<<HeaderRow, HeaderRow>> \o q :
        q \in SeqsUpTo({StatRow(h, g) : h \in {Empty, Word("An"), Word("Binh")},
                                        g \in {Empty, Word("Feedback"), Word("Done"),
                                               Word("Other")}},
                       MaxRows)}

InitDashboard == InitWith({""}, DashboardSheets, {1})

NextDashboard ==
    \E c \in Clients :
        \/ Idle(c) /\ Receive(c, Get("getDashboardData"))
        \/ ApiKeyMiddleware(c)
        \/ GetExec(c)
        \/ getDashboardData_getAllData(c)

SpecDashboard == InitDashboard /\ [][NextDashboard]_vars

----------------------------------------------------------------------------
(* SpecTwoClients: two clients.  Each sends one request: a dashboard read,  *)
(* a deleteFeedback or a bulkDelete of any data row, or an addComment on    *)
(* the first data row.  A client whose dashboard arrived sends one more     *)
(* request, a deleteFeedback, updateStage or addComment, for a row number   *)
(* the dashboard showed.  The handlers interleave at their awaits.          *)

\* the comment text client c sends
TextOf_Client(c) == Word("from" \o ToString(c))

FirstRequests(c) ==
    {Get("getDashboardData"),
     [Post("addComment") EXCEPT !.rowNumber = HeaderRows + 1, !.commentText = TextOf_Client(c)]}
    \cup {[Post("deleteFeedback") EXCEPT !.rowNumber = n] :
            n \in (HeaderRows + 1)..(HeaderRows + MaxRows)}
    \cup {[Post("bulkDelete") EXCEPT !.rowNumbers = <<n>>] :
            n \in (HeaderRows + 1)..(HeaderRows + MaxRows)}

\* the requests a client makes for a row of the dashboard it got
RowRequests(c, rows) ==
    {[r EXCEPT !.rowNumber = rows[i].rowNumber] :
        i \in 1..Len(rows),
        r \in {Post("deleteFeedback"),
               [Post("updateStage") EXCEPT !.newStage = Word("Done")],
               [Post("addComment") EXCEPT !.commentText = TextOf_Client(c)]}}

\* the client got its dashboard and sends a request for one of its rows
ReceiveForRow(c, r) ==
    /\ pc[c] = "done"
    /\ req[c].action = "getDashboardData"
    /\ Len(res[c]) = 1 /\ res[c][1].success
    /\ r \in RowRequests(c, res[c][1].data.feedback)
    /\ seen' = [seen EXCEPT ![c] = res[c][1].data.feedback]
    /\ pc' = [pc EXCEPT ![c] = "middleware"]
    /\ req' = [req EXCEPT ![c] = r]
    /\ res' = [res EXCEPT ![c] = <<>>]
    /\ loc' = [loc EXCEPT ![c] = NoLocals]
    /\ before' = [before EXCEPT ![c] = sheet]
    /\ UNCHANGED <<API_KEY, sheet, guides, clock, calls, sent>>

InitTwoClients == InitWith({""}, {SampleSheet(MaxRows)}, Clients)

NextTwoClients ==
    \E c \in Clients :
        \/ Idle(c) /\ \E r \in FirstRequests(c) : Receive(c, r)
        \/ /\ pc[c] = "done" /\ req[c].action = "getDashboardData" /\ Len(res[c]) = 1
           /\ res[c][1].success
           /\ \E r \in RowRequests(c, res[c][1].data.feedback) : ReceiveForRow(c, r)
        \/ ApiKeyMiddleware(c)
        \/ GetExec(c)
        \/ PostExec(c)
        \/ getDashboardData_getAllData(c)
        \/ deleteRow_get(c)
        \/ deleteRow_batchUpdate(c)
        \/ updateStage_F(c)
        \/ updateStage_O(c)
        \/ addComment_getRow(c)
        \/ addComment_updateCell(c)

SpecTwoClients == InitTwoClients /\ [][NextTwoClients]_vars

----------------------------------------------------------------------------
(* SpecDispatch: one update of any shape arrives at the webhook of         *)
(* part_001; among the updates are replies whose text is a command, to a   *)
(* message with and without a '#<N>'.                                      *)

CommandReplies ==
    {[NoUpdate EXCEPT !.hasMessage = TRUE, !.userId = id, !.text = t,
                      !.hasReply = TRUE, !.hasMatch = m,
                      !.replyRow = IF m THEN HeaderRows + 1 ELSE 0] :
        id \in UserIds, m \in BOOLEAN,
        t \in {Word("/myid"), Word("/groupid"), Word("//"),
               <<Ch("//"), Ch(" "), Ch("Taiz")>>, Word("/start"), Word("/help")}}

DispatchUpdates == WebhookUpdates \cup CommandReplies

InitDispatch == InitWith({""}, {WebhookSheet}, {1})

NextDispatch ==
    \E c \in Clients :
        \/ Idle(c) /\ \E u \in DispatchUpdates : ReceiveWebhook(c, u, "telegramWebhook")
        \/ telegramWebhook(c)
        \/ telegramWebhook_getAllData(c)
        \/ sendTelegramMessage(c)
        \/ telegramWebhook_updateCell_F(c)
        \/ telegramWebhook_updateCell_O(c)
        \/ uploadTelegramPhotoToR2(c)
        \/ addCommentToFeedback_getRow(c)
        \/ addCommentToFeedback_updateCell(c)
        \/ telegramWebhook_refresh(c)

SpecDispatch == InitDispatch /\ [][NextDispatch]_vars

----------------------------------------------------------------------------
(* Claims.                                                                 *)

\* the calls client c made to the remote spreadsheet
CallsOf(c) == SelectSeq(calls, LAMBDA call : call.client = c)
\* the requests that have arrived
Arrived(c) == pc[c] \notin {"idle", "off"}
\* a request whose handler is between two awaits
Running(c) == pc[c] \notin {"idle", "off", "done"}
IsExec(c) == Arrived(c) /\ req[c].path = "/api/exec"

\* C1: with API_KEY configured, a request under /api whose x-api-key header
\* differs from it (or is missing) never gets past the middleware: it is
\* answered 403 {success:false, message:'Forbidden: Invalid API Key'}, no
\* route runs for it and it makes no call to the sheet, which stays as it was.
C1_InvalidKeyForbidden ==
    \A c \in Clients :
        (Arrived(c) /\ API_KEY # "" /\ req[c].key # API_KEY) =>
            /\ pc[c] \in {"middleware", "done"}
            /\ pc[c] = "done" => res[c] = <<Forbidden>>
            /\ pc[c] = "middleware" => res[c] = <<>>
            /\ CallsOf(c) = <<>>
            /\ sheet = before[c]

\* a request without the header was answered 403 while the key is configured
C1_Witness ==
    \E c \in Clients :
        /\ pc[c] = "done" /\ API_KEY = "secret" /\ req[c].key = "none"
        /\ req[c].action = "deleteFeedback" /\ req[c].rowNumber = HeaderRows + 1
        /\ res[c] = <<Forbidden>>

\* C2: a POST or GET to /api/exec whose action throws is answered exactly
\* once, with {success:false, message: the error's message}; every request
\* that reached its route is answered at most once while it runs, exactly
\* once when it is over, and a running handler can always take its next step.
C2_ThrowAnsweredOnce ==
    \A c \in Clients :
        IsExec(c) =>
            /\ Len(res[c]) <= 1
            /\ pc[c] = "done" => Len(res[c]) = 1
            /\ Running(c) => res[c] = <<>> /\ ENABLED Next
            /\ loc[c].threw =>
                 /\ pc[c] = "done"
                 /\ res[c] = <<Json(FALSE, loc[c].error, <<>>)>>

\* a failing sheet call in the middle of bulkDelete was answered with its message
C2_Witness ==
    \E c \in Clients :
        /\ pc[c] = "done" /\ req[c].action = "bulkDelete" /\ loc[c].threw
        /\ Len(CallsOf(c)) = 4
        /\ res[c] = <<Json(FALSE, RemoteError, <<>>)>>

IsWebhook(c) == Arrived(c) /\ req[c].path = "/api/telegram-webhook"

\* C3: every POST to /api/telegram-webhook is eventually answered, exactly
\* once and with {ok:true}: whatever the update holds and whichever awaited
\* call fails, the handler ends, it has answered {ok:true} when it ends and
\* not before, and nothing is sent after that.
C3_WebhookAnsweredOnce ==
    /\ \A c \in Clients : IsWebhook(c) ~> (pc[c] = "done" /\ res[c] = <<OkTrue>>)
    /\ [](\A c \in Clients :
            IsWebhook(c) =>
                /\ pc[c] = "done" => res[c] = <<OkTrue>>
                /\ pc[c] # "done" => res[c] = <<>>)
    /\ [][\A c \in Clients : pc[c] = "done" => pc'[c] = "done" /\ res'[c] = res[c]]_vars

\* a "done" reply was answered although the write of column O failed
C3_Witness ==
    \E c \in Clients :
        /\ IsWebhook(c) /\ pc[c] = "done" /\ res[c] = <<OkTrue>>
        /\ req[c].update.hasReply /\ loc[c].error = RemoteError
        /\ Len(CallsOf(c)) = 2 /\ CallsOf(c)[1].ok /\ ~CallsOf(c)[2].ok
        /\ sent = <<Message(Word("Loi: " \o RemoteError))>>

\* the request of c is over and was answered success:true
Succeeded(c) == pc[c] = "done" /\ Len(res[c]) = 1 /\ res[c][1].success

\* the elements of an array
Range(q) == {q[i] : i \in 1..Len(q)}

\* the grid without the rows whose numbers are in S, the others in order
RECURSIVE Without(_, _, _)
Without(grid, S, i) ==
    IF i > Len(grid) THEN <<>>
    ELSE (IF i \in S THEN <<>> ELSE <<grid[i]>>) \o Without(grid, S, i + 1)

\* C4: after a successful bulkDelete(rowNumbers) the rows removed are
\* exactly the rows that stood at the requested row numbers before the call,
\* in whatever order the numbers came and also when a number is repeated;
\* the other rows keep their order.
C4_BulkDeleteRemovesRequestedRows ==
    \A c \in Clients :
        (Succeeded(c) /\ req[c].action = "bulkDelete") =>
            sheet = Without(before[c], Range(req[c].rowNumbers), 1)

\* the same, for arrays that name no row twice (this much the code does)
C4_DistinctRowsRemoved ==
    \A c \in Clients :
        (Succeeded(c) /\ req[c].action = "bulkDelete"
            /\ Cardinality(Range(req[c].rowNumbers)) = Len(req[c].rowNumbers)) =>
            sheet = Without(before[c], Range(req[c].rowNumbers), 1)

\* the records a successful getDashboardData answered
Feedback(c) == res[c][1].data.feedback

\* C5: every record of getAllData carries the number of the sheet row it
\* was read from (its cells are the cells of that row, the first data row
\* being row 3), also when rows without shop and host lie between the
\* records; the records come in row order, so no two share a rowNumber;
\* every row with a shop or a host is returned; and a sheet of fewer than 3
\* rows yields no record.
C5_RowNumberIsSheetRow ==
    \A c \in Clients :
        (Succeeded(c) /\ req[c].action = "getDashboardData") =>
            LET rows == Feedback(c)
            IN  /\ \A i \in 1..Len(rows) :
                     /\ rows[i].rowNumber \in (HeaderRows + 1)..Len(sheet)
                     /\ rows[i].host = sheet[rows[i].rowNumber][2]
                     /\ rows[i].shop = sheet[rows[i].rowNumber][3]
                     /\ rows[i].note = sheet[rows[i].rowNumber][9]
                     /\ rows[i].host # Empty \/ rows[i].shop # Empty
                /\ \A i, j \in 1..Len(rows) : i < j => rows[i].rowNumber < rows[j].rowNumber
                /\ \A n \in (HeaderRows + 1)..Len(sheet) :
                     (sheet[n][2] # Empty \/ sheet[n][3] # Empty) =>
                        \E i \in 1..Len(rows) : rows[i].rowNumber = n
                /\ Len(sheet) < 3 => rows = <<>>

\* a record was returned from below a row without shop and host
C5_Witness ==
    \E c \in Clients :
        /\ Succeeded(c) /\ req[c].action = "getDashboardData"
        /\ Len(sheet) = HeaderRows + 3
        /\ sheet[HeaderRows + 1][3] # Empty
        /\ sheet[HeaderRows + 2] = BlankRow
        /\ Len(Feedback(c)) = 2
        /\ Feedback(c)[2].rowNumber = HeaderRows + 3

\* the calls of client c that write to the sheet
WritesOf(c) == SelectSeq(calls, LAMBDA call : call.client = c /\ IsWrite(call))

\* a text that is missing, empty or all blanks
IsBlankText(t) == t = Undefined \/ \A i \in 1..Len(t) : t[i] = Ch(" ")

\* grid g equals grid h but for the cells (n, j) with j in cols
SameBut(g, h, n, cols) ==
    /\ Len(g) = Len(h)
    /\ \A i \in 1..Len(g) : \A j \in 1..NumCols :
         (i # n \/ j \notin cols) => g[i][j] = h[i][j]

\* C6: addComment(rowNumber, text) with a row number and a non-blank text
\* appends exactly one comment {text: trimmed text, time, author:'User'} at
\* the end of the row's comment list, keeps the stored comments and their
\* order, writes the list as one JSON array into column H of the row by a
\* single cell write, and returns that list; with a blank or missing text it
\* is rejected with 'Missing comment text' before any sheet call.
C6_AddCommentAppends ==
    \A c \in Clients :
        (Arrived(c) /\ req[c].action = "addComment" /\ req[c].rowNumber # 0) =>
            LET n    == req[c].rowNumber
                text == req[c].commentText
                old  == before[c][n][8]
                list == res[c][1].data
            IN  /\ IsBlankText(text) =>
                     /\ CallsOf(c) = <<>> /\ sheet = before[c]
                     /\ pc[c] = "done" => res[c] = <<Json(FALSE, "Missing comment text", <<>>)>>
                     /\ pc[c] \in {"middleware", "postExec", "done"}
                /\ Succeeded(c) =>
                     /\ ~IsBlankText(text)
                     /\ list = Append(ParseComments(old),
                                      Comment(Trim(text), loc[c].timestamp, "User"))
                     /\ (JsonParse(old).ok /\ JsonParse(old).array) =>
                            SubSeq(list, 1, Len(list) - 1) = JsonParse(old).value
                     /\ list[Len(list)][2].text # Empty
                     /\ ~IsBlank(Head(list[Len(list)][2].text))
                     /\ sheet[n][8] = JsonStringify(list)
                     /\ JsonParse(sheet[n][8]) = [ok |-> TRUE, array |-> TRUE, value |-> list]
                     /\ WritesOf(c) = <<Call(c, "updateCell", n, "H", sheet[n][8], TRUE)>>
                     /\ SameBut(sheet, before[c], n, {8})

\* a padded text was added, trimmed, behind two stored comments
C6_Witness ==
    \E c \in Clients :
        /\ Succeeded(c) /\ req[c].action = "addComment"
        /\ req[c].commentText = <<Ch(" "), Ch("hi")>>
        /\ Len(res[c][1].data) = 3
        /\ res[c][1].data[3][2].text = Word("hi")
        /\ res[c][1].data[1] = OldComment(2)

\* C7: whatever non-empty content the comment cell held, the list written
\* by addComment still contains it: as the parsed comments, in order, or as
\* one legacy comment {text: content, time:'Note cu', author:'System'}
\* placed before the new comment.
C7_PriorContentKept ==
    \A c \in Clients :
        (Succeeded(c) /\ req[c].action = "addComment"
            /\ before[c][req[c].rowNumber][8] # Empty) =>
            LET old  == before[c][req[c].rowNumber][8]
                list == res[c][1].data
            IN  /\ sheet[req[c].rowNumber][8] = JsonStringify(list)
                /\ \/ /\ JsonParse(old).ok /\ JsonParse(old).array
                      /\ SubSeq(list, 1, Len(list) - 1) = JsonParse(old).value
                   \/ /\ Len(list) = 2
                      /\ list[1] = Comment(old, "Note cu", "System")

\* the 1-based columns updateFeedback is to keep whatever the updates say:
\* ID, Image_note, Time, MessageID, ImageID
KeptColumns == {1, 9, 11, 13, 14}

\* C8: updateFeedback(rowNumber, updates) merges: in the row handed to
\* updateRow, a field of deadline, host, shop, link, stage, tags, devNote,
\* note, message that is undefined in updates keeps the value read from the
\* sheet and a defined one takes the value of updates; ID, Image_note, Time,
\* MessageID and ImageID are kept; the one write is the updateRow of that
\* row, the kept cells and all other rows of the sheet stay as they were;
\* and a missing rowNumber is rejected with 'Missing rowNumber' before any
\* sheet call.
C8_UpdateFeedbackMerges ==
    \A c \in Clients :
        (Arrived(c) /\ req[c].action = "updateFeedback") =>
            LET n   == req[c].rowNumber
                u   == req[c].updates
                old == before[c][n]
            IN  /\ n = 0 =>
                     /\ CallsOf(c) = <<>> /\ sheet = before[c]
                     /\ pc[c] = "done" => res[c] = <<Json(FALSE, "Missing rowNumber", <<>>)>>
                     /\ pc[c] \in {"middleware", "postExec", "done"}
                /\ \A k \in 1..Len(WritesOf(c)) :
                     LET call == WritesOf(c)[k]
                     IN  /\ k = 1 /\ call.op = "updateRow" /\ call.row = n
                         /\ Len(call.value) = NumCols
                         /\ \A f \in UpdateFields :
                              call.value[FieldIndex(f) + 1] =
                                 IF u[f] = Undefined THEN old[FieldIndex(f) + 1] ELSE u[f]
                         /\ \A j \in KeptColumns : call.value[j] = old[j]
                /\ Len(sheet) = Len(before[c])
                /\ \A i \in 1..Len(sheet) : i # n => sheet[i] = before[c][i]
                /\ Succeeded(c) =>
                     /\ Len(WritesOf(c)) = 1
                     /\ \A j \in KeptColumns : sheet[n][j] = old[j]
                     /\ \A f \in UpdateFields :
                          sheet[n][FieldIndex(f) + 1] =
                             IF u[f] = Undefined THEN old[FieldIndex(f) + 1] ELSE u[f]

\* a row that ends in empty cells was updated in two fields and kept the rest
C8_Witness ==
    \E c \in Clients :
        /\ Succeeded(c) /\ req[c].action = "updateFeedback"
        /\ req[c].rowNumber = HeaderRows + 1
        /\ req[c].updates["stage"] = Word("newstage")
        /\ req[c].updates["note"] = Empty
        /\ before[c][HeaderRows + 1][11] = Empty
        /\ sheet[HeaderRows + 1][6] = Word("newstage")
        /\ sheet[HeaderRows + 1][10] = Empty
        /\ sheet[HeaderRows + 1][4] = before[c][HeaderRows + 1][4]
        /\ sheet[HeaderRows + 1][4] # Empty

\* C9: after updateFeedback answered success:true, column O (index 14) of
\* the row holds the timestamp this call computed.
C9_UpdatedAtWritten ==
    \A c \in Clients :
        (Succeeded(c) /\ req[c].action = "updateFeedback") =>
            sheet[req[c].rowNumber][NumCols] = Word(loc[c].timestamp)

\* C10: a successful updateStage(rowNumber, newStage) makes exactly two
\* writes, updateCell(rowNumber, 'F', newStage) and then updateCell(rowNumber,
\* 'O', timestamp); afterwards column O of the row holds the timestamp,
\* column F holds newStage (when the request carries one), and every other
\* cell of the row and every other row is as it was.
C10_UpdateStageWritesFThenO ==
    \A c \in Clients :
        (Succeeded(c) /\ req[c].action = "updateStage") =>
            LET n  == req[c].rowNumber
                ts == Word(loc[c].timestamp)
            IN  /\ WritesOf(c) = <<Call(c, "updateCell", n, "F", req[c].newStage, TRUE),
                                   Call(c, "updateCell", n, "O", ts, TRUE)>>
                /\ CallsOf(c) = WritesOf(c)
                /\ sheet[n][NumCols] = ts
                /\ ts # before[c][n][NumCols]
                /\ req[c].newStage # Undefined => sheet[n][6] = req[c].newStage
                /\ SameBut(sheet, before[c], n, {6, NumCols})

\* the stage of the second data row was set to Done
C10_Witness ==
    \E c \in Clients :
        /\ Succeeded(c) /\ req[c].action = "updateStage"
        /\ req[c].rowNumber = HeaderRows + 2 /\ req[c].newStage = Word("Done")
        /\ before[c][HeaderRows + 2][6] = Word("Feedback")
        /\ sheet[HeaderRows + 2][6] = Word("Done")
        /\ sheet[HeaderRows + 2][NumCols] = Word(loc[c].timestamp)

\* the request of c got past the middleware
Routed(c) == Arrived(c) /\ pc[c] # "middleware" /\ res[c] # <<Forbidden>>

\* the actions the GET route serves, and those the POST route serves
GetActions == {"getDashboardData", "getGuidesData", "getHistory"}
PostActions ==
    {"getDashboardData", "getGuidesData", "createFeedback", "updateFeedback",
     "updateStage", "deleteFeedback", "bulkUpdateStage", "bulkDelete", "addComment",
     "getComments", "createGuide", "updateGuide", "deleteGuide", "deleteComment"}

\* C11: a GET to /api/exec never writes: whatever the action, the request
\* makes no appendRow, updateRow, updateCell or deleteRow call and the sheet
\* and the guides sheet stay as they were; an action other than
\* getDashboardData, getGuidesData and getHistory makes no sheet call at all
\* and is answered {success:false, message:'Unknown action or use POST: ' +
\* action}.
C11_GetServesReadsOnly ==
    \A c \in Clients :
        (IsExec(c) /\ req[c].method = "GET") =>
            /\ WritesOf(c) = <<>>
            /\ sheet = before[c]
            /\ guides = SampleGuides
            /\ (req[c].action \notin GetActions /\ Routed(c)) =>
                 /\ CallsOf(c) = <<>>
                 /\ pc[c] \in {"getExec", "done"}
                 /\ pc[c] = "done" =>
                      res[c] = <<Json(FALSE, "Unknown action or use POST: " \o req[c].action, <<>>)>>

\* a GET that names deleteFeedback and a data row was turned away
C11_Witness ==
    \E c \in Clients :
        /\ IsExec(c) /\ req[c].method = "GET" /\ pc[c] = "done"
        /\ req[c].action = "deleteFeedback" /\ req[c].rowNumber = HeaderRows + 1
        /\ API_KEY = ""
        /\ res[c] = <<Json(FALSE, "Unknown action or use POST: deleteFeedback", <<>>)>>
        /\ sheet = before[c]

\* C17: a POST to /api/exec whose action is missing or is none of the
\* listed action names is answered {success:false, message:'Unknown action: '
\* + action} and makes no call to the sheet.
C17_UnknownActionOnPost ==
    \A c \in Clients :
        (IsExec(c) /\ req[c].method = "POST" /\ req[c].action \notin PostActions
            /\ Routed(c)) =>
            /\ CallsOf(c) = <<>>
            /\ sheet = before[c]
            /\ pc[c] \in {"postExec", "done"}
            /\ pc[c] = "done" =>
                 res[c] = <<Json(FALSE, "Unknown action: " \o req[c].action, <<>>)>>

\* a POST without an action, and one that names getHistory, were turned away
C17_Witness ==
    \E c \in Clients :
        /\ IsExec(c) /\ req[c].method = "POST" /\ pc[c] = "done"
        /\ req[c].action \in {"undefined", "getHistory"}
        /\ req[c].rowNumber = HeaderRows + 1
        /\ res[c] = <<Json(FALSE, "Unknown action: " \o req[c].action, <<>>)>>

\* C12: a GET to /api/exec with action=getHistory is answered success:true
\* (with the history rows).
C12_GetHistoryAnswers ==
    \A c \in Clients :
        (IsExec(c) /\ req[c].method = "GET" /\ req[c].action = "getHistory"
            /\ Routed(c) /\ pc[c] = "done") =>
            /\ Len(res[c]) = 1
            /\ res[c][1].success

\* C13: createGuide with a guide object appends exactly one row to the
\* guides sheet and answers success:true; without a guide it is rejected
\* with 'No guide data' and makes no sheet call.
C13_CreateGuideAppends ==
    \A c \in Clients :
        (IsExec(c) /\ req[c].method = "POST" /\ req[c].action = "createGuide"
            /\ Routed(c) /\ pc[c] = "done") =>
            IF req[c].hasGuide
                THEN /\ res[c][1].success
                     /\ Len(guides) = Len(SampleGuides) + 1
                     /\ SubSeq(guides, 1, Len(SampleGuides)) = SampleGuides
                ELSE /\ res[c] = <<Json(FALSE, "No guide data", <<>>)>>
                     /\ CallsOf(c) = <<>>
                     /\ guides = SampleGuides

\* the JSON list the cell holds, empty when the cell holds no JSON array
StoredList(cell) ==
    IF JsonParse(cell).ok /\ JsonParse(cell).array THEN JsonParse(cell).value ELSE <<>>

\* C14: deleteComment(rowNumber, commentIndex) with 0 <= commentIndex < the
\* length of the stored JSON comment list removes exactly the comment at
\* that index, keeps the others in order, writes the list to column H by one
\* cell write and returns it with success:true (unless a sheet call fails,
\* and then nothing is written); with any other index it answers
\* {success:false, message:'Invalid comment index'} and writes nothing.
C14_DeleteCommentRemovesOne ==
    \A c \in Clients :
        (Arrived(c) /\ req[c].action = "deleteComment" /\ req[c].rowNumber # 0
            /\ req[c].hasIndex) =>
            LET n      == req[c].rowNumber
                i      == req[c].commentIndex
                stored == StoredList(before[c][n][8])
                valid  == i >= 0 /\ i < Len(stored)
                list   == res[c][1].data
            IN  /\ ~valid =>
                     /\ WritesOf(c) = <<>> /\ sheet = before[c]
                     /\ (pc[c] = "done" /\ ~loc[c].threw) =>
                            res[c] = <<Json(FALSE, "Invalid comment index", <<>>)>>
                /\ loc[c].threw => loc[c].error = RemoteError /\ sheet = before[c]
                /\ (valid /\ pc[c] = "done" /\ ~loc[c].threw) => Succeeded(c)
                /\ Succeeded(c) =>
                     /\ valid
                     /\ Len(list) = Len(stored) - 1
                     /\ \A k \in 1..Len(list) :
                            list[k] = IF k <= i THEN stored[k] ELSE stored[k + 1]
                     /\ res[c] = <<Json(TRUE, "Deleted comment!", list)>>
                     /\ sheet[n][8] = JsonStringify(list)
                     /\ JsonParse(sheet[n][8]) = [ok |-> TRUE, array |-> TRUE, value |-> list]
                     /\ WritesOf(c) = <<Call(c, "updateCell", n, "H", sheet[n][8], TRUE)>>
                     /\ SameBut(sheet, before[c], n, {8})

\* the first of two stored comments was removed and the second written back
C14_Witness ==
    \E c \in Clients :
        /\ Succeeded(c) /\ req[c].action = "deleteComment" /\ req[c].commentIndex = 0
        /\ StoredList(before[c][req[c].rowNumber][8]) = <<OldComment(2), OldComment(1)>>
        /\ res[c][1].data = <<OldComment(1)>>
        /\ sheet[req[c].rowNumber][8] = JsonStringify(<<OldComment(1)>>)

\* C15: in the bot versions of the server a request to /api/telegram-webhook,
\* /api/telegram-setup, /api/telegram-info or /api/telegram-image is never
\* answered 403, whatever its x-api-key and whether API_KEY is configured or
\* not: it reaches its route, which answers it; a request to /api/exec whose
\* key is not the configured one is answered 403 and goes no further.
C15_TelegramSkipsKey ==
    \A c \in Clients :
        Arrived(c) =>
            /\ req[c].path \in TelegramPaths =>
                 /\ Forbidden \notin Range(res[c])
                 /\ pc[c] \notin {"notFound", "postExec", "getExec"}
                 /\ pc[c] = "done" => Len(res[c]) = 1 /\ res[c][1].status = 200
            /\ (req[c].path = "/api/exec" /\ API_KEY # "" /\ req[c].key # API_KEY) =>
                 /\ pc[c] \in {"middleware", "done"}
                 /\ pc[c] = "done" => res[c] = <<Forbidden>>
                 /\ CallsOf(c) = <<>>

\* with the key configured, a GET of /api/telegram-image without the header
\* was served
C15_Witness ==
    \E c \in Clients :
        /\ API_KEY = "secret" /\ req[c].key = "none"
        /\ req[c].path = "/api/telegram-image" /\ req[c].hasFileId
        /\ pc[c] = "done" /\ res[c] = <<Json(TRUE, "", <<>>)>>

\* the number of rows with the given stage, and with the given host
WithStage(rows, g) == Cardinality({i \in 1..Len(rows) : rows[i].stage = g})
WithHost(rows, h) == Cardinality({i \in 1..Len(rows) : rows[i].host = h})

C20_StageUpdateAllOrNothing ==
    \A c \in Clients :
        (IsExec(c) /\ req[c].action \in {"updateStage", "bulkUpdateStage"}
            /\ pc[c] = "done" /\ Len(res[c]) = 1 /\ ~res[c][1].success) =>
            /\ Len(sheet) = Len(before[c])
            /\ \A n \in 1..Len(sheet) :
                 /\ sheet[n][6] = before[c][n][6]
                 /\ sheet[n][NumCols] = before[c][n][NumCols]

\* the record the dashboard of client c showed under the row number of its
\* request
SeenRecord(c) ==
    CHOOSE r \in Range(seen[c]) : r.rowNumber = req[c].rowNumber

\* the handler of c is about to read or write the row its request names
AtRow(c) ==
    pc[c] \in {"deleteRow_get", "deleteRow_batchUpdate", "updateStage_F", "updateStage_O",
               "addComment_getRow", "addComment_updateCell"}

\* C18: a request for a row number taken from an earlier dashboard acts on
\* the record the dashboard showed under that number, whatever another
\* client did in between: when its handler reads or writes the row, the row
\* of that number holds that record, and a deleteFeedback that succeeds has
\* removed that record.
C18_RowNumberDenotesRecord ==
    \A c \in Clients :
        seen[c] # <<>> =>
            /\ AtRow(c) =>
                 /\ InGrid(sheet, req[c].rowNumber)
                 /\ sheet[req[c].rowNumber][2] = SeenRecord(c).host
                 /\ sheet[req[c].rowNumber][3] = SeenRecord(c).shop
            /\ (Succeeded(c) /\ req[c].action = "deleteFeedback") =>
                 \A n \in 1..Len(sheet) : sheet[n][3] # SeenRecord(c).shop

\* the texts of the comments a cell holds
TextsIn(cell) == {StoredList(cell)[i][2].text : i \in 1..Len(StoredList(cell))}

\* C19: when two addComment requests for the same row have both answered
\* success, however their reads and writes of the row interleaved, the
\* row's comment cell holds both new comments.
C19_NoCommentLost ==
    \A c, d \in Clients :
        (c # d /\ Succeeded(c) /\ Succeeded(d)
            /\ req[c].action = "addComment" /\ req[d].action = "addComment"
            /\ req[c].rowNumber = req[d].rowNumber) =>
            /\ Trim(req[c].commentText) \in TextsIn(sheet[req[c].rowNumber][8])
            /\ Trim(req[d].commentText) \in TextsIn(sheet[req[d].rowNumber][8])

\* the branch the claim's order gives an update with a chat and a sender
BranchOf(u) ==
    LET text == Trim(OrEmpty(u.text))
    IN  IF text = Word("/myid") THEN "myid"
        ELSE IF text = Word("/groupid") THEN "groupid"
        ELSE IF text = Word("//")
                \/ (Len(text) >= 2 /\ text[1] = Ch("//") /\ text[2] = Ch(" ")) THEN "list"
        ELSE IF u.hasReply /\ u.hasMatch THEN "reply"
        ELSE IF text = Word("/start") THEN "start"
        ELSE IF text = Word("/help") THEN "help"
        ELSE "none"

\* the answers of the commands
AnswerOf(kind, u) ==
    CASE kind = "myid" -> Word("User ID: " \o u.userId)
      [] kind = "groupid" -> Word("Chat ID: chat")
      [] kind = "start" -> Word("Xin chao User!")
      [] kind = "help" -> Word("Huong dan su dung Bot")

\* the texts that went out, and the answers of the list command among them
SentTexts == {sent[i].text : i \in 1..Len(sent)}
IsListAnswer(u, text) ==
    \/ text = Word("Chua duoc dang ky: " \o u.userId)
    \/ \E n \in 1..(HeaderRows + MaxRows + 1) : text[1] = Ch("ID: #" \o ToString(n))
    \/ text[1] = Ch("Khong co feedback nao cho ")

\* C21: the webhook of part_001 handles an update in exactly one branch,
\* taken in the order /myid, /groupid, // (or // <Host>), reply to a message
\* with '#<N>', /start, /help, else none: a command branch sends its own
\* answer, once at most, and calls no sheet; the list branch reads the sheet
\* at most once, sends list answers only and writes nothing; the reply
\* branch sends no command answer, touches row N only, and a reply that is
\* not a "done" is stored as a comment on row N when its calls succeed;
\* otherwise nothing is sent and no sheet is called.
C21_OneBranchInOrder ==
    \A c \in Clients :
        (IsWebhook(c) /\ req[c].update.hasMessage /\ req[c].update.hasChat
            /\ req[c].update.hasFrom) =>
            LET u    == req[c].update
                kind == BranchOf(u)
                n    == u.replyRow
                commands == {AnswerOf(k, u) : k \in {"myid", "groupid", "start", "help"}}
            IN  /\ kind \in {"myid", "groupid", "start", "help"} =>
                     /\ sent \in {<<>>, <<Message(AnswerOf(kind, u))>>}
                     /\ calls = <<>>
                     /\ sheet = before[c]
                /\ kind = "list" =>
                     /\ \A i \in 1..Len(sent) : IsListAnswer(u, sent[i].text)
                     /\ calls \in {<<>>, <<Call(c, "getAllData", 0, "", <<>>, TRUE)>>,
                                   <<Call(c, "getAllData", 0, "", <<>>, FALSE)>>}
                     /\ sheet = before[c]
                /\ kind = "reply" =>
                     /\ SentTexts \cap commands = {}
                     /\ \A i \in 1..Len(sent) :
                            /\ sent[i].text # Word("Chua duoc dang ky: " \o u.userId)
                            /\ sent[i].text[1] # Ch("Khong co feedback nao cho ")
                     /\ \A i \in 1..Len(calls) : calls[i].op # "getAllData" => calls[i].row = n
                     /\ SameBut(sheet, before[c], n, {6, 8, NumCols})
                     /\ (pc[c] = "done" /\ loc[c].error = ""
                            /\ ~StartsWithDone(ToLowerCase(ReplyText(u)))) =>
                          LET list == StoredList(sheet[n][8])
                          IN  /\ Len(list) = Len(ParseComments(before[c][n][8])) + 1
                              /\ list[Len(list)][2].author = "Telegram"
                              /\ StartsWith(list[Len(list)][2].text,
                                            Word("[Telegram] User: ") \o ReplyText(u))
                              /\ WritesOf(c) = <<Call(c, "updateCell", n, "H", sheet[n][8], TRUE)>>
                              /\ sent = <<>>
                /\ kind = "none" =>
                     /\ sent = <<>> /\ calls = <<>> /\ sheet = before[c]

\* a reply '/start' to a message with '#3' was stored as a comment on row 3
\* and no greeting went out
C21_Witness ==
    \E c \in Clients :
        /\ IsWebhook(c) /\ pc[c] = "done" /\ loc[c].error = ""
        /\ req[c].update.hasReply /\ req[c].update.hasMatch
        /\ req[c].update.text = Word("/start")
        /\ req[c].update.replyRow = HeaderRows + 1
        /\ sent = <<>>
        /\ StoredList(sheet[HeaderRows + 1][8]) # <<>>
        /\ StoredList(sheet[HeaderRows + 1][8])[Len(StoredList(sheet[HeaderRows + 1][8]))][2].text
             = Word("[Telegram] User: ") \o Word("/start")

====
